---- MODULE Spec2Model ----
(***************************************************************************)
(* mock-hub: rule matcher, template renderer and the request resolution    *)
(* pipeline of the mock server.                                            *)
(*                                                                         *)
(* A JavaScript string value (path, header value, query value, body text,  *)
(* scenario name) is a sequence of one-character strings.  Object keys,    *)
(* header names, HTTP methods, event names and diagnostic reasons are      *)
(* TLA+ strings.  A JavaScript object is the sequence of its entries       *)
(* [k, v] in insertion order.  An optional field is <<>> when absent and   *)
(* <<x>> when present.                                                     *)
(***************************************************************************)
EXTENDS Integers, Sequences, FiniteSets, TLC

VARIABLES
  call,              \* the matcher call under analysis: its operation name and inputs
  loop,              \* locals of findMatchingRule: index, bestMatch, bestScore, observer calls
  ret,               \* the value the call returned, <<>> while it is still running
  proxyBaseUrl,      \* options.proxyBaseUrl of createServer, <<>> when not configured
  currentScenario,   \* ScenarioState.currentScenario, <<>> when undefined
  templateRuntimes,  \* the templateRuntimes map of createServer: scenario name -> runtime
  requests,          \* per connection slot: the locals and position of handleRequest
  started,           \* number of requests received so far
  completed,         \* the handleRequest call that returned in the last step, <<>> if none
  incrementLog       \* per scenario name: the values nextIncrement returned, in order

matcherVars == <<call, loop, ret>>
serverVars ==
  <<proxyBaseUrl, currentScenario, templateRuntimes, requests, started, completed,
    incrementLog>>
vars == <<call, loop, ret, proxyBaseUrl, currentScenario, templateRuntimes, requests,
          started, completed, incrementLog>>

----------------------------------------------------------------------------
(* Bounds *)

MaxRules == 3
MaxPathLen == 4
MaxInFlight == 2
MaxRequests == 2
MaxResponses == 2
MaxTemplateLen == 6
MaxFiles == 2

----------------------------------------------------------------------------
(* JavaScript values and strings *)

Undef == [t |-> "undefined"]
Null == [t |-> "null"]
Str(s) == [t |-> "string", s |-> s]
List(l) == [t |-> "array", l |-> l]

RECURSIVE Join(_, _)
Join(l, sep) ==
  IF Len(l) = 0 THEN <<>>
  ELSE IF Len(l) = 1 THEN l[1]
  ELSE l[1] \o sep \o Join(Tail(l), sep)

\* String(value) of JavaScript
String(v) ==
  CASE v.t = "string" -> v.s
    [] v.t = "undefined" -> <<"u", "n", "d", "e", "f", "i", "n", "e", "d">>
    [] v.t = "null" -> <<"n", "u", "l", "l">>
    [] v.t = "array" -> Join(v.l, <<",">>)

SetMax(S) == CHOOSE m \in S : \A n \in S : n <= m

\* obj[key] for an object with the given entries
Get(obj, key) ==
  LET idx == {i \in 1..Len(obj) : obj[i].k = key}
  IN IF idx = {} THEN Undef ELSE obj[SetMax(idx)].v

StartsWith(s, p) == Len(p) <= Len(s) /\ SubSeq(s, 1, Len(p)) = p
EndsWith(s, e) == Len(e) <= Len(s) /\ SubSeq(s, Len(s) - Len(e) + 1, Len(s)) = e
Includes(s, c) == \E i \in 1..Len(s) : s[i] = c

\* s.split(c) for a one-character separator: the pieces between separators
RECURSIVE Split(_, _)
Split(s, c) ==
  IF ~Includes(s, c) THEN <<s>>
  ELSE LET i == CHOOSE j \in 1..Len(s) : s[j] = c /\ \A h \in 1..(j - 1) : s[h] # c
       IN <<SubSeq(s, 1, i - 1)>> \o Split(SubSeq(s, i + 1, Len(s)), c)

LowerTable ==
  [k \in {"X-User-Type", "x-user-type", "X-Mode", "x-mode", "ETag", "etag",
          "Connection", "connection", "Content-Type", "content-type",
          "x-mockhub-scenario", "Host", "host", "transfer-encoding",
          "keep-alive", "proxy-authenticate", "proxy-authorization", "te", "trailer",
          "upgrade", "content-length", "Content-Length", "Upgrade"} |->
     CASE k = "X-User-Type" -> "x-user-type"
       [] k = "X-Mode" -> "x-mode"
       [] k = "ETag" -> "etag"
       [] k = "Connection" -> "connection"
       [] k = "Content-Type" -> "content-type"
       [] k = "Host" -> "host"
       [] k = "Content-Length" -> "content-length"
       [] k = "Upgrade" -> "upgrade"
       [] OTHER -> k]

UpperTable ==
  [m \in {"GET", "get", "POST", "post", "HEAD", "head"} |->
     CASE m = "get" -> "GET"
       [] m = "post" -> "POST"
       [] m = "head" -> "HEAD"
       [] OTHER -> m]

toLowerCase(k) == LowerTable[k]
toUpperCase(m) == UpperTable[m]

----------------------------------------------------------------------------
(* Rule matcher *)

normalizeHeaderKey(key) == toLowerCase(key)

normalizePathSegment(value) ==
  IF Len(value) > 1 /\ value[Len(value)] = "/"
  THEN SubSeq(value, 1, Len(value) - 1)
  ELSE value

\* Variant: the prefix test without the path-segment alignment
matchesPath_unalignedPrefix(pattern, actual) ==
  IF pattern = actual THEN TRUE
  ELSE IF ~Includes(pattern, "*") THEN FALSE
  ELSE LET parts == Split(pattern, "*")
           normalizedStart == normalizePathSegment(parts[1])
           normalizedActual == normalizePathSegment(actual)
       IN /\ StartsWith(normalizedActual, normalizedStart)
          /\ EndsWith(normalizedActual, parts[2])

matchesPath(pattern, actual) ==
  IF pattern = actual THEN TRUE
  ELSE IF ~Includes(pattern, "*") THEN FALSE
  ELSE LET parts == Split(pattern, "*")
           start == parts[1]
           end == parts[2]
           normalizedStart == normalizePathSegment(start)
           normalizedActual == normalizePathSegment(actual)
           startsOk == IF normalizedStart # <<>>
                       THEN \/ normalizedActual = normalizedStart
                            \/ StartsWith(normalizedActual, normalizedStart \o <<"/">>)
                       ELSE TRUE
           endsOk == IF end # <<>> THEN EndsWith(normalizedActual, end) ELSE TRUE
       IN startsOk /\ endsOk

matchesMethod(match, method) ==
  IF match.method = "" THEN TRUE
  ELSE toUpperCase(match.method) = toUpperCase(method)

\* normalizedHeaders[key]: the request headers re-keyed by lower-cased name
normalizedHeader(headers, key) ==
  LET idx == {i \in 1..Len(headers) : normalizeHeaderKey(headers[i].k) = key}
  IN IF idx = {} THEN Undef ELSE headers[SetMax(idx)].v

headerEntryOk(entry, headers) ==
  LET headerValue == normalizedHeader(headers, normalizeHeaderKey(entry.k))
  IN IF entry.v.t \in {"undefined", "null"} THEN headerValue # Undef
     ELSE IF headerValue.t = "array" THEN Includes(headerValue.l, entry.v.s)
     ELSE String(headerValue) = entry.v.s

matchesHeaders(match, headers) ==
  IF match.headers = <<>> THEN TRUE
  ELSE \A i \in 1..Len(match.headers[1]) : headerEntryOk(match.headers[1][i], headers)

headerEntryReason(entry, headers) ==
  LET actual == normalizedHeader(headers, normalizeHeaderKey(entry.k))
  IN IF entry.v.t \in {"undefined", "null"}
     THEN (IF actual = Undef THEN <<"header " \o entry.k \o " missing">> ELSE <<>>)
     ELSE IF actual = Undef THEN <<"header " \o entry.k \o " missing">>
     ELSE IF actual.t = "array"
     THEN (IF ~Includes(actual.l, entry.v.s) THEN <<"header " \o entry.k \o " mismatch">> ELSE <<>>)
     ELSE IF String(actual) # entry.v.s THEN <<"header " \o entry.k \o " mismatch">>
     ELSE <<>>

\* the reason of the first declared entry that has one, <<>> for undefined
FirstReason(reasons) ==
  LET idx == {i \in 1..Len(reasons) : reasons[i] # <<>>}
  IN IF idx = {} THEN <<>>
     ELSE reasons[CHOOSE i \in idx : \A j \in idx : i <= j]

headerMismatchReason(match, headers) ==
  IF match.headers = <<>> THEN <<>>
  ELSE FirstReason([i \in 1..Len(match.headers[1]) |->
                      headerEntryReason(match.headers[1][i], headers)])

queryEntryOk(entry, query) ==
  LET actual == Get(query, entry.k)
  IN IF actual.t \in {"undefined", "null"} THEN FALSE
     ELSE String(actual) = entry.v

matchesQuery(match, query) ==
  IF match.query = <<>> THEN TRUE
  ELSE \A i \in 1..Len(match.query[1]) : queryEntryOk(match.query[1][i], query)

queryEntryReason(entry, query) ==
  LET actual == Get(query, entry.k)
  IN IF actual.t \in {"undefined", "null"} THEN <<"query " \o entry.k \o " missing">>
     ELSE IF String(actual) # entry.v THEN <<"query " \o entry.k \o " mismatch">>
     ELSE <<>>

queryMismatchReason(match, query) ==
  IF match.query = <<>> THEN <<>>
  ELSE FirstReason([i \in 1..Len(match.query[1]) |->
                      queryEntryReason(match.query[1][i], query)])

\* value ?? fallback for an optional reason
OrElse(opt, fallback) == IF opt = <<>> THEN <<fallback>> ELSE opt

NonEmptyPieces(path) ==
  LET parts == Split(path, "/")
  IN Cardinality({i \in 1..Len(parts) : parts[i] # <<>>})

\* Variant: the path segments are not counted
scoreMatchSpecificity_flatPath(match) ==
  (IF match.path # <<>> THEN (IF Includes(match.path, "*") THEN 1 ELSE 10) ELSE 0)
  + (IF match.method # "" THEN 5 ELSE 0)
  + (IF match.headers # <<>> THEN Len(match.headers[1]) * 2 ELSE 0)
  + (IF match.query # <<>> THEN Len(match.query[1]) * 3 ELSE 0)

scoreMatchSpecificity(match) ==
  (IF match.path # <<>>
   THEN (IF Includes(match.path, "*") THEN 1 ELSE 10) + NonEmptyPieces(match.path)
   ELSE 0)
  + (IF match.method # "" THEN 5 ELSE 0)
  + (IF match.headers # <<>> THEN Len(match.headers[1]) * 2 ELSE 0)
  + (IF match.query # <<>> THEN Len(match.query[1]) * 3 ELSE 0)

evaluateRule(rule, request) ==
  LET match == rule.match
  IN IF ~matchesPath(match.path, request.path)
     THEN [matched |-> FALSE, reason |-> <<"path mismatch">>]
     ELSE IF ~matchesMethod(match, request.method)
     THEN [matched |-> FALSE, reason |-> <<"method mismatch">>]
     ELSE IF ~matchesHeaders(match, request.headers)
     THEN [matched |-> FALSE,
           reason |-> OrElse(headerMismatchReason(match, request.headers), "header mismatch")]
     ELSE IF ~matchesQuery(match, request.query)
     THEN [matched |-> FALSE,
           reason |-> OrElse(queryMismatchReason(match, request.query), "query mismatch")]
     ELSE [matched |-> TRUE, reason |-> <<>>]

\* Variants of the loop body used to test the sensitivity of the properties:
\* keeping the first match, replacing on an equal score, and notifying the
\* observer for matched rules only.
findMatchingRuleStep_firstMatch(st, rules, request) ==
  LET index == st.index
      rule == rules[index + 1]
      result == evaluateRule(rule, request)
      seen == Append(st.observed, [rule |-> rule, ruleIndex |-> index, result |-> result])
  IN IF result.matched /\ st.bestMatch = <<>>
     THEN [index |-> index + 1,
           bestMatch |-> <<[rule |-> rule, ruleIndex |-> index]>>,
           bestScore |-> scoreMatchSpecificity(rule.match),
           observed |-> seen]
     ELSE [st EXCEPT !.index = index + 1, !.observed = seen]

findMatchingRuleStep_lastTie(st, rules, request) ==
  LET index == st.index
      rule == rules[index + 1]
      result == evaluateRule(rule, request)
      seen == Append(st.observed, [rule |-> rule, ruleIndex |-> index, result |-> result])
      score == scoreMatchSpecificity(rule.match)
  IN IF result.matched /\ score >= st.bestScore
     THEN [index |-> index + 1,
           bestMatch |-> <<[rule |-> rule, ruleIndex |-> index]>>,
           bestScore |-> score,
           observed |-> seen]
     ELSE [st EXCEPT !.index = index + 1, !.observed = seen]

findMatchingRuleStep_observeMatches(st, rules, request) ==
  LET index == st.index
      rule == rules[index + 1]
      result == evaluateRule(rule, request)
      seen == Append(st.observed, [rule |-> rule, ruleIndex |-> index, result |-> result])
      score == scoreMatchSpecificity(rule.match)
  IN IF ~result.matched
     THEN [st EXCEPT !.index = index + 1]
     ELSE IF score > st.bestScore
     THEN [index |-> index + 1,
           bestMatch |-> <<[rule |-> rule, ruleIndex |-> index]>>,
           bestScore |-> score,
           observed |-> seen]
     ELSE [st EXCEPT !.index = index + 1, !.observed = seen]

\* One iteration of the for loop of findMatchingRule on rules[index]
\* (index is the zero-based ruleIndex of the code).
findMatchingRuleStep(st, rules, request) ==
  LET index == st.index
      rule == rules[index + 1]
      result == evaluateRule(rule, request)
      seen == Append(st.observed, [rule |-> rule, ruleIndex |-> index, result |-> result])
      score == scoreMatchSpecificity(rule.match)
  IN IF ~result.matched
     THEN [st EXCEPT !.index = index + 1, !.observed = seen]
     ELSE IF score > st.bestScore
     THEN [index |-> index + 1,
           bestMatch |-> <<[rule |-> rule, ruleIndex |-> index]>>,
           bestScore |-> score,
           observed |-> seen]
     ELSE [st EXCEPT !.index = index + 1, !.observed = seen]

findMatchingRuleStart ==
  [index |-> 0, bestMatch |-> <<>>, bestScore |-> -1, observed |-> <<>>]

RECURSIVE findMatchingRuleRun(_, _, _)
findMatchingRuleRun(st, rules, request) ==
  IF st.index < Len(rules)
  THEN findMatchingRuleRun(findMatchingRuleStep(st, rules, request), rules, request)
  ELSE st

\* findMatchingRule(rules, request, observer): the returned MatchingRule
\* (<<>> for undefined) together with the observer calls made
findMatchingRule(rules, request) ==
  LET final == findMatchingRuleRun(findMatchingRuleStart, rules, request)
  IN [match |-> final.bestMatch, observed |-> final.observed]

----------------------------------------------------------------------------
(* Template engine: parser, helpers and renderer *)

Obj(e) == [t |-> "object", e |-> e]
\* A number: n + tenths / 10 when finite, NaN otherwise
Num(n) == [t |-> "number", n |-> n, tenths |-> 0, finite |-> TRUE]
Tenths(n, d) == [t |-> "number", n |-> n, tenths |-> d, finite |-> TRUE]
NaN == [t |-> "number", n |-> 0, tenths |-> 0, finite |-> FALSE]

\* value < k and value > k for a number value and an integer k
lessThan(value, k) == value.finite /\ value.n < k
greaterThan(value, k) == value.finite /\ (value.n > k \/ (value.n = k /\ value.tenths > 0))

HelperUuid == <<"u", "u", "i", "d">>
HelperNow == <<"n", "o", "w">>
HelperIncrement == <<"i", "n", "c", "r", "e", "m", "e", "n", "t">>
TEMPLATE_HELPERS == <<HelperUuid, HelperNow, HelperIncrement>>

Open2 == <<"{", "{">>
Close2 == <<"}", "}">>

\* input.slice(from, to) with zero-based, end-exclusive indexes
Slice(input, from, to) ==
  SubSeq(input, from + 1, IF to > Len(input) THEN Len(input) ELSE to)

\* input.indexOf(needle, from) for a two-character needle, -1 when absent
IndexOf2(input, needle, from) ==
  LET hits == {i \in from..(Len(input) - 2) : Slice(input, i, i + 2) = needle}
  IN IF hits = {} THEN -1 ELSE CHOOSE i \in hits : \A j \in hits : i <= j

\* content.includes(needle) for a two-character needle
Includes2(content, needle) == IndexOf2(content, needle, 0) # -1

hasWhitespace(value) == \E i \in 1..Len(value) : value[i] \in {" ", "\t", "\n"}

isAllowedHelper(value) == \E i \in 1..Len(TEMPLATE_HELPERS) : TEMPLATE_HELPERS[i] = value

looksLikeHelperWithArgs(value) ==
  \E i \in 1..Len(TEMPLATE_HELPERS) :
    StartsWith(value, TEMPLATE_HELPERS[i]) /\ value # TEMPLATE_HELPERS[i]

parseStart ==
  [tokens |-> <<>>, errors |-> <<>>, helpers |-> <<>>, hasTemplates |-> FALSE,
   buffer |-> <<>>, index |-> 0, stopped |-> FALSE]

flushBuffer(st) ==
  IF Len(st.buffer) > 0
  THEN [st EXCEPT !.tokens = Append(@, [type |-> "text", value |-> st.buffer]),
                  !.buffer = <<>>]
  ELSE st

\* Variant: whitespace is looked for before a nested template
classifyContent_whitespaceFirst(st, content, index) ==
  IF Len(content) = 0
  THEN [st EXCEPT !.errors = Append(@, [code |-> "malformed", index |-> index])]
  ELSE IF hasWhitespace(content)
  THEN [st EXCEPT !.errors = Append(@, [code |-> "arguments-not-allowed", index |-> index])]
  ELSE IF Includes2(content, Open2) \/ Includes2(content, Close2)
  THEN [st EXCEPT !.errors = Append(@, [code |-> "nested-helper", index |-> index])]
  ELSE IF isAllowedHelper(content)
  THEN [st EXCEPT !.tokens = Append(@, [type |-> "helper", name |-> content]),
                  !.helpers = Append(@, content)]
  ELSE IF looksLikeHelperWithArgs(content)
  THEN [st EXCEPT !.errors = Append(@, [code |-> "arguments-not-allowed", index |-> index])]
  ELSE [st EXCEPT !.errors = Append(@, [code |-> "unknown-helper", index |-> index])]

\* The error, or the helper token, of the template whose content is given
classifyContent(st, content, index) ==
  IF Len(content) = 0
  THEN [st EXCEPT !.errors = Append(@, [code |-> "malformed", index |-> index])]
  ELSE IF Includes2(content, Open2) \/ Includes2(content, Close2)
  THEN [st EXCEPT !.errors = Append(@, [code |-> "nested-helper", index |-> index])]
  ELSE IF hasWhitespace(content)
  THEN [st EXCEPT !.errors = Append(@, [code |-> "arguments-not-allowed", index |-> index])]
  ELSE IF isAllowedHelper(content)
  THEN [st EXCEPT !.tokens = Append(@, [type |-> "helper", name |-> content]),
                  !.helpers = Append(@, content)]
  ELSE IF looksLikeHelperWithArgs(content)
  THEN [st EXCEPT !.errors = Append(@, [code |-> "arguments-not-allowed", index |-> index])]
  ELSE [st EXCEPT !.errors = Append(@, [code |-> "unknown-helper", index |-> index])]

\* Variant: an iteration that buffers the character and leaves the index
parseStep_indexKept(st, input) ==
  [st EXCEPT !.buffer = Append(@, input[st.index + 1])]

\* One iteration of the while loop of parseTemplateString
parseStep(st, input) ==
  LET index == st.index
  IN IF input[index + 1] = "\\" /\ Slice(input, index + 1, index + 3) = Open2
     THEN LET closeIndex == IndexOf2(input, Close2, index + 3)
          IN IF closeIndex = -1
             THEN [st EXCEPT !.buffer = @ \o Open2, !.index = index + 3]
             ELSE [st EXCEPT
                     !.buffer = @ \o Open2 \o Slice(input, index + 3, closeIndex) \o Close2,
                     !.index = closeIndex + 2]
     ELSE IF Slice(input, index, index + 2) = Open2
     THEN LET flushed == flushBuffer(st)
              closeIndex == IndexOf2(input, Close2, index + 2)
          IN IF closeIndex = -1
             THEN [flushed EXCEPT
                     !.errors = Append(@, [code |-> "malformed", index |-> index]),
                     !.stopped = TRUE]
             ELSE [classifyContent([flushed EXCEPT !.hasTemplates = TRUE],
                                   Slice(input, index + 2, closeIndex), index)
                     EXCEPT !.index = closeIndex + 2]
     ELSE IF Slice(input, index, index + 2) = Close2
     THEN [st EXCEPT !.errors = Append(@, [code |-> "unexpected-close", index |-> index]),
                     !.index = index + 2]
     ELSE [st EXCEPT !.buffer = Append(@, input[index + 1]), !.index = index + 1]

RECURSIVE parseRun(_, _)
parseRun(st, input) ==
  IF st.index < Len(input) /\ ~st.stopped
  THEN parseRun(parseStep(st, input), input)
  ELSE st

parseTemplateString(input) ==
  LET final == flushBuffer(parseRun(parseStart, input))
  IN [tokens |-> final.tokens, errors |-> final.errors,
      helpers |-> final.helpers, hasTemplates |-> final.hasTemplates]

\* String(n) for a non-negative integer: its decimal digits
Digit(d) == <<"0", "1", "2", "3", "4", "5", "6", "7", "8", "9">>[d + 1]

RECURSIVE Decimal(_)
Decimal(n) == IF n < 10 THEN <<Digit(n)>> ELSE Append(Decimal(n \div 10), Digit(n % 10))

\* createTemplateRuntime(): the closure over counter
\* issued lists the values the counter handed out during the current render
createTemplateRuntime == [counter |-> 0, issued |-> <<>>]

\* runtime.nextIncrement(): the runtime after the call and the value returned
nextIncrement(runtime) ==
  [runtime |-> [runtime EXCEPT !.counter = @ + 1,
                               !.issued = Append(@, runtime.counter + 1)],
   value |-> runtime.counter + 1]

\* resolveHelper(name, runtime); env holds the values crypto.randomUUID() and
\* new Date().toISOString() return during this render
resolveHelper(name, runtime, env) ==
  IF name = HelperUuid THEN [runtime |-> runtime, text |-> env.uuid]
  ELSE IF name = HelperNow THEN [runtime |-> runtime, text |-> env.now]
  ELSE LET next == nextIncrement(runtime)
       IN [runtime |-> next.runtime, text |-> Decimal(next.value)]

\* Variant: every helper name is pushed, also one the target already holds
mergeHelpers_pushAll(target, helpers) == target \o helpers

\* mergeHelpers(target, helpers)
RECURSIVE mergeHelpers(_, _)
mergeHelpers(target, helpers) ==
  IF helpers = <<>> THEN target
  ELSE mergeHelpers(IF Includes(target, Head(helpers)) THEN target
                    ELSE Append(target, Head(helpers)),
                    Tail(helpers))

\* The map over parsed.tokens of renderString, joined
RECURSIVE renderTokens(_, _, _, _)
renderTokens(tokens, acc, runtime, env) ==
  IF tokens = <<>> THEN [acc EXCEPT !.runtime = runtime]
  ELSE LET token == Head(tokens)
       IN IF token.type = "text"
          THEN renderTokens(Tail(tokens), [acc EXCEPT !.value = @ \o token.value],
                            runtime, env)
          ELSE LET resolved == resolveHelper(token.name, runtime, env)
               IN renderTokens(Tail(tokens),
                               [acc EXCEPT !.value = @ \o resolved.text,
                                           !.helpers = mergeHelpers(@, <<token.name>>)],
                               resolved.runtime, env)

\* A render result: threw is TRUE when TemplateRenderError was raised; runtime
\* is the counter state the call leaves behind in both cases.
Thrown(errors, runtime) ==
  [threw |-> TRUE, errors |-> errors, value |-> Undef, helpers |-> <<>>, runtime |-> runtime]

\* value.includes('\\{{')
includesEscape(value) ==
  \E i \in 0..(Len(value) - 3) : Slice(value, i, i + 3) = <<"\\", "{", "{">>

\* Variant: a string without templates is returned as it is
renderString_rawWithoutTemplates(value, runtime, env) ==
  IF Len(parseTemplateString(value).errors) > 0
  THEN Thrown(parseTemplateString(value).errors, runtime)
  ELSE IF ~parseTemplateString(value).hasTemplates
  THEN [threw |-> FALSE, errors |-> <<>>, value |-> Str(value), helpers |-> <<>>,
        runtime |-> runtime]
  ELSE [threw |-> FALSE, errors |-> <<>>,
        value |-> Str(renderTokens(parseTemplateString(value).tokens,
                                   [value |-> <<>>, helpers |-> <<>>, runtime |-> runtime],
                                   runtime, env).value),
        helpers |-> renderTokens(parseTemplateString(value).tokens,
                                 [value |-> <<>>, helpers |-> <<>>, runtime |-> runtime],
                                 runtime, env).helpers,
        runtime |-> renderTokens(parseTemplateString(value).tokens,
                                 [value |-> <<>>, helpers |-> <<>>, runtime |-> runtime],
                                 runtime, env).runtime]

renderString(value, runtime, env) ==
  LET parsed == parseTemplateString(value)
  IN IF Len(parsed.errors) > 0 THEN Thrown(parsed.errors, runtime)
     ELSE IF ~parsed.hasTemplates /\ ~includesEscape(value)
     THEN [threw |-> FALSE, errors |-> <<>>, value |-> Str(value), helpers |-> <<>>,
           runtime |-> runtime]
     ELSE LET out == renderTokens(parsed.tokens,
                                  [value |-> <<>>, helpers |-> <<>>, runtime |-> runtime],
                                  runtime, env)
          IN [threw |-> FALSE, errors |-> <<>>, value |-> Str(out.value),
              helpers |-> out.helpers, runtime |-> out.runtime]

RECURSIVE renderTemplates(_, _, _)
RECURSIVE renderEach(_, _, _, _, _)
RECURSIVE renderEach_skipFailed(_, _, _, _, _)

\* Variant: an element that fails to render is left out as undefined
renderEach_skipFailed(todo, done, helpers, runtime, env) ==
  IF todo = <<>>
  THEN [threw |-> FALSE, errors |-> <<>>, value |-> done, helpers |-> helpers,
        runtime |-> runtime]
  ELSE IF renderTemplates(Head(todo), runtime, env).threw
  THEN renderEach_skipFailed(Tail(todo), Append(done, Undef), helpers,
                             renderTemplates(Head(todo), runtime, env).runtime, env)
  ELSE renderEach_skipFailed(Tail(todo),
                             Append(done, renderTemplates(Head(todo), runtime, env).value),
                             mergeHelpers(helpers,
                                          renderTemplates(Head(todo), runtime, env).helpers),
                             renderTemplates(Head(todo), runtime, env).runtime, env)

\* value.map(...) of renderTemplates over array elements or object entries:
\* done holds the rendered elements, helpers the merged helper names
renderEach(todo, done, helpers, runtime, env) ==
  IF todo = <<>>
  THEN [threw |-> FALSE, errors |-> <<>>, value |-> done, helpers |-> helpers,
        runtime |-> runtime]
  ELSE LET result == renderTemplates(Head(todo), runtime, env)
       IN IF result.threw THEN result
          ELSE renderEach(Tail(todo), Append(done, result.value),
                          mergeHelpers(helpers, result.helpers), result.runtime, env)

renderTemplates(value, runtime, env) ==
  IF value.t = "string" THEN renderString(value.s, runtime, env)
  ELSE IF value.t = "array"
  THEN LET r == renderEach(value.l, <<>>, <<>>, runtime, env)
       IN IF r.threw THEN r ELSE [r EXCEPT !.value = List(r.value)]
  ELSE IF value.t = "object"
  THEN LET r == renderEach([i \in 1..Len(value.e) |-> value.e[i].v], <<>>, <<>>,
                           runtime, env)
       IN IF r.threw THEN r
          ELSE [r EXCEPT !.value =
                  Obj([i \in 1..Len(value.e) |-> [k |-> value.e[i].k, v |-> r.value[i]]])]
  ELSE [threw |-> FALSE, errors |-> <<>>, value |-> value, helpers |-> <<>>,
        runtime |-> runtime]

----------------------------------------------------------------------------
(* Server: helpers of the request handler *)

AUTO_GEN_PREFIX == <<"a", "u", "t", "o", "-", "g", "e", "n", "-">>

\* headers['x-mockhub-scenario'], first value when the header is multi-valued;
\* <<>> is undefined
getHeaderScenario(headers) ==
  LET value == Get(headers, "x-mockhub-scenario")
  IN IF value.t = "array" THEN (IF Len(value.l) > 0 THEN <<value.l[1]>> ELSE <<>>)
     ELSE IF value.t = "string" THEN <<value.s>>
     ELSE <<>>

IsDigit(c) == c \in {"0", "1", "2", "3", "4", "5", "6", "7", "8", "9"}
DigitValue(c) == CHOOSE d \in 0..9 : Digit(d) = c

RECURSIVE DigitsValue(_)
DigitsValue(s) ==
  IF s = <<>> THEN 0 ELSE 10 * DigitsValue(SubSeq(s, 1, Len(s) - 1)) + DigitValue(s[Len(s)])

AllDigits(s) == s # <<>> /\ \A i \in 1..Len(s) : IsDigit(s[i])

\* Number(text) on texts made of letters, digits and '-': <<n>> for a finite
\* number, <<>> for NaN.  The empty text is 0.
Number(s) ==
  IF s = <<>> THEN <<0>>
  ELSE IF AllDigits(s) THEN <<DigitsValue(s)>>
  ELSE IF s[1] \in {"-", "+"} /\ AllDigits(Tail(s))
  THEN <<(IF s[1] = "-" THEN -1 ELSE 1) * DigitsValue(Tail(s))>>
  ELSE <<>>

\* parseAutoGenStatus(scenarioName): <<code>> or <<>> for undefined
parseAutoGenStatus(scenarioName) ==
  IF scenarioName = <<>> \/ ~StartsWith(scenarioName[1], AUTO_GEN_PREFIX) THEN <<>>
  ELSE Number(SubSeq(scenarioName[1], Len(AUTO_GEN_PREFIX) + 1, Len(scenarioName[1])))

\* if (autoGenStatus): a number is truthy unless it is 0
Truthy(optNumber) == optNumber # <<>> /\ optNumber[1] # 0

\* Variant: the active scenario takes precedence over the header
resolveScenarioName_activeFirst(headerScenario, activeScenario) ==
  IF activeScenario # <<>> THEN activeScenario ELSE headerScenario

\* headerScenario ?? activeScenario
resolveScenarioName(headerScenario, activeScenario) ==
  IF headerScenario # <<>> THEN headerScenario ELSE activeScenario

\* new Map(scenarios.map(...)).get(name): the last scenario of that name
scenarioMapGet(scenarios, name) ==
  LET idx == {i \in 1..Len(scenarios) : scenarios[i].scenario = name}
  IN IF idx = {} THEN <<>> ELSE <<scenarios[SetMax(idx)]>>

\* Variant: host is forwarded
HOP_BY_HOP_HEADERS_hostKept ==
  {"connection", "keep-alive", "proxy-authenticate", "proxy-authorization", "te",
   "trailer", "transfer-encoding", "upgrade", "content-length"}

HOP_BY_HOP_HEADERS ==
  {"connection", "keep-alive", "proxy-authenticate", "proxy-authorization", "te",
   "trailer", "transfer-encoding", "upgrade", "host", "content-length"}

isHopByHopHeader(key) == toLowerCase(key) \in HOP_BY_HOP_HEADERS

\* result[key] = value on an object given by its entries
SetEntry(obj, key, value) ==
  IF \E i \in 1..Len(obj) : obj[i].k = key
  THEN [i \in 1..Len(obj) |-> IF obj[i].k = key THEN [k |-> key, v |-> value] ELSE obj[i]]
  ELSE Append(obj, [k |-> key, v |-> value])

RECURSIVE collectProxyResponseHeaders(_)
collectProxyResponseHeaders(headers) ==
  IF headers = <<>> THEN <<>>
  ELSE LET rest == collectProxyResponseHeaders(SubSeq(headers, 1, Len(headers) - 1))
           last == headers[Len(headers)]
       IN IF isHopByHopHeader(toLowerCase(last.k)) THEN rest
          ELSE SetEntry(rest, toLowerCase(last.k), last.v)

RECURSIVE buildProxyHeaders(_)
buildProxyHeaders(headers) ==
  IF headers = <<>> THEN <<>>
  ELSE LET rest == buildProxyHeaders(SubSeq(headers, 1, Len(headers) - 1))
           last == headers[Len(headers)]
       IN IF isHopByHopHeader(toLowerCase(last.k)) THEN rest
          ELSE IF last.v.t = "undefined" THEN rest
          ELSE SetEntry(rest, toLowerCase(last.k), String(last.v))

RECURSIVE applyOverrides(_, _)
applyOverrides(merged, overrides) ==
  IF overrides = <<>> THEN merged
  ELSE applyOverrides(SetEntry(merged, toLowerCase(Head(overrides).k), Head(overrides).v),
                      Tail(overrides))

\* Variant: a header the upstream sent is not replaced by the rule's
mergeHeaders_baseWins(base, overrides) ==
  IF overrides = <<>> THEN base
  ELSE applyOverrides(applyOverrides(base, overrides[1]), base)

\* mergeHeaders(base, overrides); overrides is optional
mergeHeaders(base, overrides) ==
  IF overrides = <<>> THEN base ELSE applyOverrides(base, overrides[1])

shouldSendBody(method) == method # "GET" /\ method # "HEAD"

\* respond.status ?? proxied.status
statusOrProxied(respond, proxied) ==
  IF respond.status # <<>> THEN respond.status[1] ELSE proxied.status

\* Variant: only an inline body counts as a mock body
hasMockBody_inlineOnly(respond) == respond.body # <<>>

\* respond.bodyFile !== undefined || respond.body !== undefined
hasMockBody(respond) == respond.bodyFile # <<>> \/ respond.body # <<>>

\* Variant: a timeout of 0 counts as no timeout
hasTimeout_truthy(respond) == respond.timeout # <<>> /\ respond.timeout[1] # 0

\* respond.timeout !== undefined
hasTimeout(respond) == respond.timeout # <<>>

\* if (respond.delayMs): a delay of 0 does not wait
hasDelay(respond) == respond.delayMs # <<>> /\ respond.delayMs[1] # 0

\* timeoutMs ? setTimeout(() => controller.abort(), timeoutMs) : undefined
hasAbortTimer(timeoutMs) == timeoutMs # <<>> /\ timeoutMs[1] # 0

----------------------------------------------------------------------------
(* Happy-path response from the OpenAPI responses of a route *)

IsTruthy(v) ==
  CASE v.t = "string" -> v.s # <<>>
    [] v.t = "number" -> v.finite /\ (v.n # 0 \/ v.tenths # 0)
    [] v.t \in {"undefined", "null"} -> FALSE
    [] OTHER -> TRUE

SetMin(S) == CHOOSE m \in S : \A n \in S : m <= n

\* the keys of responses that are three digits, as numbers
StatusCodes(responses) ==
  {DigitsValue(responses[i].k) : i \in {j \in 1..Len(responses) :
      Len(responses[j].k) = 3 /\ AllDigits(responses[j].k)}}

pickLowestStatus(responses) ==
  IF StatusCodes(responses) = {} THEN 200 ELSE SetMin(StatusCodes(responses))

pickHappyPathStatus(responses) ==
  LET successCodes == {c \in StatusCodes(responses) : c \div 100 = 2}
  IN IF successCodes # {} THEN SetMin(successCodes) ELSE pickLowestStatus(responses)

\* responses[String(status)], else the first response object; <<>> for undefined
pickResponse(responses, status) ==
  LET idx == {i \in 1..Len(responses) : responses[i].k = Decimal(status)}
  IN IF idx # {} THEN <<responses[SetMax(idx)].v>>
     ELSE IF responses # <<>> THEN <<responses[1].v>>
     ELSE <<>>

pickContent(response) ==
  IF response = <<>> \/ response[1].content = <<>> THEN <<>>
  ELSE LET content == response[1].content[1]
           json == {i \in 1..Len(content) : content[i].k = "application/json"}
       IN IF json # {} THEN <<content[SetMax(json)].v>>
          ELSE IF content # <<>> THEN <<content[1].v>>
          ELSE <<>>

pickExample(content) ==
  IF content = <<>> THEN Undef
  ELSE IF IsTruthy(content[1].example) THEN content[1].example
  ELSE IF content[1].examples # <<>> /\ content[1].examples[1] # <<>>
          /\ content[1].examples[1][1].v # Undef
  THEN content[1].examples[1][1].v
  ELSE Undef

\* JSONSchemaFaker.generate(schema): a value of the schema, kept symbolic
generateFromSchema(schema) ==
  IF schema = <<>> THEN Undef ELSE [t |-> "generated", schema |-> schema[1]]

generateHappyPathResponse(responses) ==
  LET status == pickHappyPathStatus(responses)
      content == pickContent(pickResponse(responses, status))
      example == pickExample(content)
      schema == IF content = <<>> THEN <<>> ELSE content[1].schema
  IN [status |-> status,
      body |-> IF example \notin {Undef, Null} THEN example ELSE generateFromSchema(schema)]

----------------------------------------------------------------------------
(* Server: configuration of the modelled runs *)

PathContracts == <<"/", "a">>
PathContractsId == <<"/", "a", "/", "b">>
PatternWild == <<"/", "a", "/", "*">>

NameOutage == <<"o", "u", "t">>
NameFiles == <<"f", "i", "l", "e", "s">>
NameGhost == <<"g", "o", "n", "e">>
AutoGen500 == AUTO_GEN_PREFIX \o <<"5", "0", "0">>
AutoGen503 == AUTO_GEN_PREFIX \o <<"5", "0", "3">>
AutoGen0 == AUTO_GEN_PREFIX \o <<"0">>

PathB == <<"/", "b">>
PathC == <<"/", "c">>

TemplateIncrement == Open2 \o HelperIncrement \o Close2

BodyDown ==
  Obj(<<[k |-> "error", v |-> Str(<<"d", "o", "w", "n">>)],
        [k |-> "attempt", v |-> Str(TemplateIncrement)]>>)

BodyLate == Str(<<"l", "a", "t", "e">>)

\* GET /a/* answers 503 with a templated body
RuleDown ==
  [id |-> <<"down">>,
   match |-> [path |-> PatternWild, method |-> "GET", headers |-> <<>>, query |-> <<>>],
   respond |-> [status |-> <<503>>, body |-> <<BodyDown>>, bodyFile |-> <<>>,
                headers |-> <<<<[k |-> "X-Mode", v |-> <<"m", "o", "c", "k">>]>>>>,
                delayMs |-> <<>>, timeout |-> <<>>]]

\* POST /a/b only adjusts status and headers, after a delay, with a timeout
RuleOverride ==
  [id |-> <<"override">>,
   match |-> [path |-> PathContractsId, method |-> "POST", headers |-> <<>>, query |-> <<>>],
   respond |-> [status |-> <<429>>, body |-> <<>>, bodyFile |-> <<>>,
                headers |-> <<<<[k |-> "X-Mode", v |-> <<"m", "o", "c", "k">>], [k |-> "ETag", v |-> <<"v", "2">>]>>>>,
                delayMs |-> <<10>>, timeout |-> <<50>>]]

\* any method on /b: a body together with a timeout of 0
RuleLate ==
  [id |-> <<"late">>,
   match |-> [path |-> PathB, method |-> "", headers |-> <<>>, query |-> <<>>],
   respond |-> [status |-> <<200>>, body |-> <<BodyLate>>, bodyFile |-> <<>>,
                headers |-> <<>>, delayMs |-> <<>>, timeout |-> <<0>>]]

\* GET /c: status only
RuleBare ==
  [id |-> <<>>,
   match |-> [path |-> PathC, method |-> "GET", headers |-> <<>>, query |-> <<>>],
   respond |-> [status |-> <<204>>, body |-> <<>>, bodyFile |-> <<>>,
                headers |-> <<>>, delayMs |-> <<>>, timeout |-> <<>>]]

\* any method below /a: the body comes from a file, after a delay
RuleFile ==
  [id |-> <<"file">>,
   match |-> [path |-> PatternWild, method |-> "", headers |-> <<>>, query |-> <<>>],
   respond |-> [status |-> <<200>>, body |-> <<>>, bodyFile |-> <<"seq.json">>,
                headers |-> <<>>, delayMs |-> <<5>>, timeout |-> <<>>]]

\* options.scenarios
Scenarios ==
  <<[scenario |-> NameOutage, rules |-> <<RuleDown, RuleOverride, RuleLate, RuleBare>>,
     sourceDir |-> "/scenarios"],
    [scenario |-> NameFiles, rules |-> <<RuleFile>>, sourceDir |-> "/scenarios"]>>

\* The body files below the source directory: the parsed JSON document, <<>>
\* when the text is not JSON
BodyFiles ==
  [f \in {"seq.json"} |->
     [text |-> <<"[", "\"">> \o TemplateIncrement \o <<"\"", ",", "\"">>
               \o TemplateIncrement \o <<"\"", "]">>,
      json |-> <<List(<<Str(TemplateIncrement), Str(TemplateIncrement)>>)>>]]

\* Variant: the file is never parsed
readBodyFile_rawOnly(file) == Str(file.text)

\* readBodyFile for the file read: JSON.parse(file), or file when that throws
readBodyFile(file) == IF file.json # <<>> THEN file.json[1] ELSE Str(file.text)

MediaType(example, schema) ==
  [example |-> example, examples |-> <<>>, schema |-> schema]

ResponsesAB ==
  <<[k |-> <<"2", "0", "0">>,
     v |-> [content |-> <<<<[k |-> "application/json",
                             v |-> MediaType(Str(<<"A">>), <<"schemaA">>)]>>>>]],
    [k |-> <<"2", "0", "1">>,
     v |-> [content |-> <<<<[k |-> "application/json",
                             v |-> MediaType(Str(<<"B">>), <<>>)]>>>>]]>>

ResponsesB ==
  <<[k |-> <<"4", "0", "4">>,
     v |-> [content |-> <<<<[k |-> "text/plain", v |-> MediaType(Undef, <<"schemaB">>)]>>>>]],
    [k |-> <<"d", "e", "f", "a", "u", "l", "t">>, v |-> [content |-> <<>>]]>>

\* options.routes
Routes ==
  <<[method |-> "GET", path |-> PathContractsId, responses |-> ResponsesAB],
    [method |-> "POST", path |-> PathContractsId, responses |-> ResponsesAB],
    [method |-> "GET", path |-> PathB, responses |-> ResponsesB]>>

\* The route whose handler the framework calls for the request, <<>> if none
routeFor(method, path) ==
  LET idx == {i \in 1..Len(Routes) : Routes[i].method = method /\ Routes[i].path = path}
  IN IF idx = {} THEN <<>> ELSE <<Routes[SetMin(idx)]>>

----------------------------------------------------------------------------
(* Server: state of createServer and of the handleRequest calls *)

Slots == 1..MaxInFlight

NoReply == [sent |-> FALSE, status |-> 0, headers |-> <<>>, body |-> Undef]

\* The locals of one handleRequest call.  pc is the await the call is
\* suspended at: "idle" before the request arrives, "done" after return.
IdleRequest ==
  [pc |-> "idle", seq |-> 0, request |-> <<>>, route |-> <<>>,
   headerScenario |-> <<>>, activeScenario |-> <<>>, scenarioName |-> <<>>,
   autoGenStatus |-> <<>>, loadedScenario |-> <<>>, match |-> <<>>,
   fetches |-> <<>>, upstream |-> <<>>, proxied |-> <<>>, reply |-> NoReply,
   thrown |-> <<>>,
   events |-> <<>>]

ServerStopped ==
  /\ proxyBaseUrl = <<>>
  /\ currentScenario = <<>>
  /\ templateRuntimes = <<>>
  /\ requests = <<>>
  /\ started = 0
  /\ completed = <<>>
  /\ incrementLog = <<>>

MatcherUnused ==
  /\ call = [op |-> "none"]
  /\ loop = findMatchingRuleStart
  /\ ret = <<>>

isProxyEnabled == proxyBaseUrl # <<>>

\* Variant: a new runtime for every render
getTemplateRuntime_perRequest(runtimes, scenarioId) == createTemplateRuntime

\* getTemplateRuntime(scenarioId): the cached runtime, or a new one
getTemplateRuntime(runtimes, scenarioId) ==
  IF scenarioId \in DOMAIN runtimes THEN runtimes[scenarioId] ELSE createTemplateRuntime

\* templateRuntimes after the runtime of scenarioId was used and left as given
putTemplateRuntime(runtimes, scenarioId, runtime) ==
  [n \in DOMAIN runtimes \cup {scenarioId} |->
     IF n = scenarioId THEN [runtime EXCEPT !.issued = <<>>] ELSE runtimes[n]]

logIssued(log, scenarioId, runtime) ==
  [n \in DOMAIN log \cup {scenarioId} |->
     IF n = scenarioId
     THEN (IF n \in DOMAIN log THEN log[n] ELSE <<>>) \o runtime.issued
     ELSE log[n]]

MockTimeoutBody == Obj(<<[k |-> "message", v |-> Str(<<"M", "o", "c", "k", " ", "t", "i", "m", "e", "o", "u", "t">>)]>>)
ProxyTimeoutBody == Obj(<<[k |-> "message", v |-> Str(<<"P", "r", "o", "x", "y", " ", "t", "i", "m", "e", "o", "u", "t">>)]>>)
ProxyErrorBody == Obj(<<[k |-> "message", v |-> Str(<<"P", "r", "o", "x", "y", " ", "e", "r", "r", "o", "r">>)]>>)
NotFoundBody == Obj(<<[k |-> "message", v |-> Str(<<"N", "o", "t", " ", "F", "o", "u", "n", "d">>)]>>)

\* options.eventLogger.emitEvent(event)
Emit(rec, event) == [rec EXCEPT !.events = Append(@, event)]

\* Variant: the completion event reports 200 whatever status was sent
Complete_statusOk(source, status) ==
  [event |-> "execution-complete", source |-> source, status |-> 200]

Complete(source, status) ==
  [event |-> "execution-complete", source |-> source, status |-> status]

\* reply.header(key, value) for each entry
RECURSIVE replyHeaders(_, _)
replyHeaders(rec, entries) ==
  IF entries = <<>> THEN rec
  ELSE replyHeaders([rec EXCEPT !.reply.headers = SetEntry(@, Head(entries).k, Head(entries).v)],
                    Tail(entries))

\* reply.code(status).send(body); body ?? undefined turns null into undefined
replySend(rec, status, body) ==
  [rec EXCEPT !.reply.sent = TRUE, !.reply.status = status,
              !.reply.body = IF body = Null THEN Undef ELSE body]

Finish(rec) == [rec EXCEPT !.pc = "done"]

\* serializeRequestBody(body)
serializeRequestBody(body) ==
  IF body.t \in {"undefined", "null"} THEN Undef
  ELSE IF body.t \in {"string", "buffer"} THEN body
  ELSE [t |-> "json-text", of |-> body]

\* proxyRequest up to the await of fetch: the upstream request that is sent
proxyRequestSend(rec, timeoutMs) ==
  [rec EXCEPT !.fetches = Append(@,
     [url |-> rec.request[1].path,
      method |-> rec.request[1].method,
      headers |-> buildProxyHeaders(rec.request[1].headers),
      body |-> IF shouldSendBody(rec.request[1].method)
               THEN serializeRequestBody(rec.request[1].body) ELSE Undef,
      abortTimer |-> hasAbortTimer(timeoutMs)])]

\* Variant: an abort is reported like any other failure
proxyResult_abortAsError(outcome) ==
  IF outcome.type = "response"
  THEN [type |-> "success", status |-> outcome.status,
        headers |-> collectProxyResponseHeaders(outcome.headers),
        body |-> IF Len(outcome.bytes) > 0 THEN [t |-> "buffer", bytes |-> outcome.bytes]
                 ELSE Undef]
  ELSE [type |-> "error", message |-> "fetch failed"]

\* proxyRequest after the await: the ProxyResult for what the upstream did
proxyResult(outcome) ==
  IF outcome.type = "response"
  THEN [type |-> "success", status |-> outcome.status,
        headers |-> collectProxyResponseHeaders(outcome.headers),
        body |-> IF Len(outcome.bytes) > 0 THEN [t |-> "buffer", bytes |-> outcome.bytes]
                 ELSE Undef]
  ELSE IF outcome.type = "abort" THEN [type |-> "timeout"]
  ELSE [type |-> "error", message |-> "fetch failed"]

\* Variant: a failed upstream call is sent once more
proxyFailed_retry(rec, proxied) ==
  [proxyRequestSend(rec, <<>>) EXCEPT !.pc = "proxyPlain"]

\* handleRequest lines for a 'timeout' or 'error' ProxyResult
proxyFailed(rec, proxied) ==
  IF proxied.type = "timeout"
  THEN Finish(Emit(replySend(rec, 504, ProxyTimeoutBody), Complete("timeout", 504)))
  ELSE Finish(Emit(replySend(rec, 502, ProxyErrorBody), Complete("proxy", 502)))

\* The response of the proxy-with-overrides branch once the delay is over
respondOverride(rec) ==
  LET respond == rec.match[1].rule.respond
      proxied == rec.proxied[1]
      mergedHeaders == mergeHeaders(proxied.headers, respond.headers)
      status == statusOrProxied(respond, proxied)
  IN Finish(Emit(replySend(replyHeaders(rec, mergedHeaders), status, proxied.body),
                 Complete("proxy", status)))

\* The response of the pass-through branch
respondProxied(rec, proxied) ==
  Finish(Emit(replySend(replyHeaders(rec, proxied.headers), proxied.status, proxied.body),
              Complete("proxy", proxied.status)))

\* A call that only changed its own locals
Local(rec) == [rec |-> rec, used |-> <<>>]

\* The templates-applied event, when the body was rendered with helpers
emitTemplatesApplied(rec, helpers) ==
  IF helpers # <<>>
  THEN Emit(rec, [event |-> "templates-applied",
                  scenarioId |-> rec.loadedScenario[1].scenario,
                  ruleIndex |-> rec.match[1].ruleIndex, ruleId |-> rec.match[1].rule.id,
                  helpers |-> helpers])
  ELSE rec

\* respond.headers, if any, set on the reply
applyRespondHeaders(rec, respond) ==
  IF respond.headers # <<>> THEN replyHeaders(rec, respond.headers[1]) ELSE rec

\* The events after the mock response was sent
emitMockSent(rec, respond) ==
  Finish(Emit(Emit(IF isProxyEnabled
                   THEN Emit(rec, [event |-> "proxy-action", result |-> "matched",
                                   action |-> "mock",
                                   scenarioId |-> rec.loadedScenario[1].scenario,
                                   ruleIndex |-> rec.match[1].ruleIndex,
                                   ruleId |-> rec.match[1].rule.id,
                                   status |-> respond.status[1]])
                   ELSE rec,
                   [event |-> "scenario-matched",
                    scenarioId |-> rec.loadedScenario[1].scenario,
                    ruleIndex |-> rec.match[1].ruleIndex, ruleId |-> rec.match[1].rule.id]),
              Complete("scenario", respond.status[1])))

\* The mock response for a body that was rendered
sendRendered(rec, respond, rendered) ==
  IF rendered.threw
  THEN [rec |-> [rec EXCEPT !.pc = "done", !.thrown = <<"TemplateRenderError">>],
        used |-> <<rendered.runtime>>]
  ELSE [rec |-> emitMockSent(replySend(applyRespondHeaders(
                                         emitTemplatesApplied(rec, rendered.helpers), respond),
                                       respond.status[1], rendered.value),
                             respond),
        used |-> <<rendered.runtime>>]

\* The mock response for the resolved body: render, headers, send, events.
\* Yields the call's locals and the runtime it used (<<>> when none was).
respondMock(rec, body, runtimes, env) ==
  IF body # Undef
  THEN sendRendered(rec, rec.match[1].rule.respond,
                    renderTemplates(body,
                                    getTemplateRuntime(runtimes,
                                                       rec.loadedScenario[1].scenario),
                                    env))
  ELSE Local(emitMockSent(replySend(applyRespondHeaders(rec, rec.match[1].rule.respond),
                                    rec.match[1].rule.respond.status[1], body),
                          rec.match[1].rule.respond))

\* handleRequest after the artificial delay: resolve the body, then respond
resolveBody(rec, runtimes, env) ==
  LET respond == rec.match[1].rule.respond
  IN IF respond.bodyFile # <<>> /\ respond.bodyFile[1] # ""
     THEN Local([rec EXCEPT !.pc = "readBodyFile"])
     ELSE respondMock(rec, IF respond.body # <<>> THEN respond.body[1] ELSE Undef,
                      runtimes, env)

----------------------------------------------------------------------------
(* Server: the requests, the upstream and the operator of the modelled runs *)

ScenarioHeader(value) == <<[k |-> "host", v |-> Str(<<"m", "o", "c", "k">>)],
                           [k |-> "x-mockhub-scenario", v |-> value]>>

\* The inbound requests: method, path (request.url without query), headers,
\* query and parsed body
Inbound ==
  {[method |-> tg[1], path |-> tg[2], headers |-> tg[3], query |-> <<>>,
    body |-> IF tg[1] = "POST" THEN Obj(<<[k |-> "q", v |-> Num(1)]>>) ELSE Undef] :
     tg \in {<<"GET", PathContractsId, <<>>>>,
             <<"GET", PathContractsId, ScenarioHeader(List(<<NameFiles, NameOutage>>))>>,
             <<"POST", PathContractsId, <<>>>>,
             <<"GET", PathB, <<>>>>,
             <<"GET", PathB, ScenarioHeader(Str(AutoGen500))>>,
             <<"GET", PathC, <<>>>>,
             <<"GET", PathC, ScenarioHeader(Str(NameGhost))>>,
             <<"GET", PathC, ScenarioHeader(Str(AutoGen0))>>}}

\* What the upstream does with a forwarded request: a response, a transport
\* failure, or nothing before the abort timer (if one runs) fires
UpstreamOutcomes(fetch) ==
  {[type |-> "response", status |-> 200,
    headers |-> <<[k |-> "connection", v |-> <<"c", "l", "o", "s", "e">>],
                  [k |-> "content-type", v |-> <<"j", "s", "o", "n">>],
                  [k |-> "etag", v |-> <<"v", "1">>]>>,
    bytes |-> <<"o", "k">>],
   [type |-> "response", status |-> 404,
    headers |-> <<[k |-> "transfer-encoding", v |-> <<"c", "h", "u", "n", "k", "e", "d">>]>>,
    bytes |-> <<>>],
   [type |-> "failure"]}
  \cup (IF fetch.abortTimer THEN {[type |-> "abort"]} ELSE {})

\* The values of crypto.randomUUID() and new Date().toISOString()
Envs == {[uuid |-> <<"u", "-", "1">>, now |-> <<"t", "-", "1">>]}

\* The names the operator selects: CLI flag or interactive selector
Selectable == {<<>>, NameOutage, AutoGen503}

ServerInit ==
  /\ MatcherUnused
  /\ proxyBaseUrl \in {<<>>, <<"http://upstream">>}
  /\ currentScenario = <<>>
  /\ templateRuntimes = <<>>
  /\ requests = [r \in Slots |-> IdleRequest]
  /\ started = 0
  /\ completed = <<>>
  /\ incrementLog = <<>>

\* The effect of a step of the call in slot r on the shared state
Commit(r, out) ==
  /\ IF out.rec.pc = "done"
     THEN requests' = [requests EXCEPT ![r] = IdleRequest] /\ completed' = <<out.rec>>
     ELSE requests' = [requests EXCEPT ![r] = out.rec] /\ completed' = <<>>
  /\ IF out.used = <<>>
     THEN UNCHANGED <<templateRuntimes, incrementLog>>
     ELSE LET scenarioId == out.rec.loadedScenario[1].scenario
          IN /\ templateRuntimes' = putTemplateRuntime(templateRuntimes, scenarioId, out.used[1])
             /\ incrementLog' = logIssued(incrementLog, scenarioId, out.used[1])

\* handleRequest, the locals up to the resolved scenario name
enterRequest(inbound, route, seq) ==
  [IdleRequest EXCEPT
     !.pc = "running", !.seq = seq, !.request = <<inbound>>, !.route = route,
     !.headerScenario = getHeaderScenario(inbound.headers),
     !.activeScenario = currentScenario,
     !.scenarioName = resolveScenarioName(getHeaderScenario(inbound.headers),
                                          currentScenario)]

\* scenarioName ? scenarioMap.get(scenarioName) : undefined
lookupScenario(scenarioName) ==
  IF scenarioName # <<>> /\ scenarioName[1] # <<>>
  THEN scenarioMapGet(Scenarios, scenarioName[1]) ELSE <<>>

\* The auto-gen status and the loaded scenario of the resolved name
resolveScenario(rec) ==
  [rec EXCEPT !.autoGenStatus = parseAutoGenStatus(rec.scenarioName),
              !.loadedScenario = lookupScenario(rec.scenarioName)]

\* The scenario-resolution event
emitResolution(rec) ==
  Emit(rec,
       [event |-> "scenario-resolution", method |-> rec.request[1].method,
        path |-> rec.request[1].path,
        headerScenario |-> rec.headerScenario, activeScenario |-> rec.activeScenario,
        result |-> IF rec.headerScenario # <<>> /\ rec.headerScenario[1] # <<>> THEN "header"
                   ELSE IF rec.activeScenario # <<>> /\ rec.activeScenario[1] # <<>>
                   THEN "active"
                   ELSE "none",
        action |-> IF Truthy(rec.autoGenStatus) THEN "auto-gen"
                   ELSE IF rec.loadedScenario # <<>> THEN "scenario" ELSE "passthrough",
        scenarioId |-> IF rec.loadedScenario # <<>> THEN <<rec.loadedScenario[1].scenario>>
                       ELSE <<>>])

\* The observer handleRequest passes to findMatchingRule: one rule-evaluated
\* event per call
ruleEvaluated(scenarioId, observed) ==
  [i \in 1..Len(observed) |->
     [event |-> "rule-evaluated", scenarioId |-> scenarioId,
      ruleIndex |-> observed[i].ruleIndex, ruleId |-> observed[i].rule.id,
      result |-> IF observed[i].result.matched THEN "matched" ELSE "not-matched",
      reason |-> observed[i].result.reason]]

\* The locals after findMatchingRule returned found
withMatch(rec, found) ==
  [rec EXCEPT !.match = found.match,
              !.events = @ \o ruleEvaluated(rec.loadedScenario[1].scenario, found.observed)]

\* if (loadedScenario) { const match = findMatchingRule(...) ... }
matchRules(rec) ==
  IF rec.loadedScenario # <<>>
  THEN withMatch(rec, findMatchingRule(rec.loadedScenario[1].rules,
                                       [method |-> rec.request[1].method,
                                        path |-> rec.request[1].path,
                                        headers |-> rec.request[1].headers,
                                        query |-> rec.request[1].query]))
  ELSE rec

\* The branch for a matched rule, to its first await or to its return
respondMatched(rec, respond, runtimes, env) ==
  IF isProxyEnabled /\ ~hasMockBody(respond)
  THEN Local([proxyRequestSend(
                Emit(rec, [event |-> "proxy-action", result |-> "matched",
                           action |-> "proxy",
                           scenarioId |-> rec.loadedScenario[1].scenario,
                           ruleIndex |-> rec.match[1].ruleIndex,
                           ruleId |-> rec.match[1].rule.id,
                           status |-> respond.status[1]]),
                respond.timeout)
              EXCEPT !.pc = "proxyOverride"])
  ELSE IF hasTimeout(respond) THEN Local([rec EXCEPT !.pc = "mockTimeout"])
  ELSE IF hasDelay(respond) THEN Local([rec EXCEPT !.pc = "mockDelay"])
  ELSE resolveBody(rec, runtimes, env)

\* The happy-path response for the route's declared responses
respondHappyPath(rec, generated) ==
  Local(Finish(Emit(replySend(rec, generated.status, generated.body),
                    Complete("happy-path", generated.status))))

\* Variant: a declared route is answered from its responses before the
\* proxy is tried
respondUnmatched_happyFirst(rec) ==
  IF Truthy(rec.autoGenStatus)
  THEN Local(Finish(Emit(replySend(rec, rec.autoGenStatus[1], Undef),
                         Complete("auto-gen", rec.autoGenStatus[1]))))
  ELSE IF rec.route # <<>>
  THEN respondHappyPath(rec, generateHappyPathResponse(rec.route[1].responses))
  ELSE IF isProxyEnabled
  THEN Local([proxyRequestSend(
                Emit(rec, [event |-> "proxy-action", result |-> "not-matched",
                           action |-> "proxy"]),
                <<>>)
              EXCEPT !.pc = "proxyPlain"])
  ELSE Local(Finish(replySend(rec, 404, NotFoundBody)))

\* The branches when no rule matched
respondUnmatched(rec) ==
  IF Truthy(rec.autoGenStatus)
  THEN Local(Finish(Emit(replySend(rec, rec.autoGenStatus[1], Undef),
                         Complete("auto-gen", rec.autoGenStatus[1]))))
  ELSE IF isProxyEnabled
  THEN Local([proxyRequestSend(
                Emit(rec, [event |-> "proxy-action", result |-> "not-matched",
                           action |-> "proxy"]),
                <<>>)
              EXCEPT !.pc = "proxyPlain"])
  ELSE IF rec.route # <<>>
  THEN respondHappyPath(rec, generateHappyPathResponse(rec.route[1].responses))
  ELSE Local(Finish(replySend(rec, 404, NotFoundBody)))

\* The branch handleRequest takes with its locals resolved
dispatch(rec, runtimes, env) ==
  IF rec.match # <<>>
  THEN respondMatched(rec, rec.match[1].rule.respond, runtimes, env)
  ELSE respondUnmatched(rec)

\* handleRequest from its first line to its first await or to its return
handleRequestEntry(inbound, route, seq, env) ==
  dispatch(matchRules(emitResolution(resolveScenario(enterRequest(inbound, route, seq)))),
           templateRuntimes, env)

FreeSlots == {r \in Slots : requests[r].pc = "idle"}

\* A request arrives and the framework calls handleRequest: with the matched
\* route, or from the not-found handler that is installed with a proxy.
Receive ==
  /\ started < MaxRequests
  /\ FreeSlots # {}
  /\ \E inbound \in Inbound, env \in Envs :
       LET route == routeFor(inbound.method, inbound.path)
       IN /\ route # <<>> \/ isProxyEnabled
          /\ Commit(SetMin(FreeSlots), handleRequestEntry(inbound, route, started + 1, env))
  /\ started' = started + 1
  /\ UNCHANGED <<matcherVars, proxyBaseUrl, currentScenario>>

\* The proxy-with-overrides branch from the return of proxyRequest to its
\* next await or to its return
resumeOverride(call0, outcome) ==
  LET proxied == proxyResult(outcome)
      rec == [call0 EXCEPT !.upstream = <<outcome>>, !.proxied = <<proxied>>]
  IN IF proxied.type # "success" THEN proxyFailed(rec, proxied)
     ELSE IF hasDelay(rec.match[1].rule.respond)
     THEN [rec EXCEPT !.pc = "overrideDelay"]
     ELSE respondOverride(rec)

\* await proxyRequest(...) of the proxy-with-overrides branch returns
ProxyOverrideReturn(r) ==
  /\ requests[r].pc = "proxyOverride"
  /\ \E outcome \in UpstreamOutcomes(requests[r].fetches[Len(requests[r].fetches)]) :
       Commit(r, Local(resumeOverride(requests[r], outcome)))
  /\ UNCHANGED <<matcherVars, proxyBaseUrl, currentScenario, started>>

\* await sleep(respond.delayMs) of the proxy-with-overrides branch returns
OverrideDelayDone(r) ==
  /\ requests[r].pc = "overrideDelay"
  /\ Commit(r, Local(respondOverride(requests[r])))
  /\ UNCHANGED <<matcherVars, proxyBaseUrl, currentScenario, started>>

\* await sleep(respond.timeout) returns
MockTimeoutDone(r) ==
  /\ requests[r].pc = "mockTimeout"
  /\ Commit(r, Local(Finish(Emit(replySend(requests[r], 504, MockTimeoutBody),
                                 Complete("timeout", 504)))))
  /\ UNCHANGED <<matcherVars, proxyBaseUrl, currentScenario, started>>

\* await sleep(respond.delayMs) of the mock branch returns
MockDelayDone(r) ==
  /\ requests[r].pc = "mockDelay"
  /\ \E env \in Envs : Commit(r, resolveBody(requests[r], templateRuntimes, env))
  /\ UNCHANGED <<matcherVars, proxyBaseUrl, currentScenario, started>>

\* Variant: after the file was read the scenario is looked up again under
\* the name that is active by then
ReadBodyFileDone_activeAtResume(r) ==
  /\ requests[r].pc = "readBodyFile"
  /\ \E env \in Envs :
       LET file == BodyFiles[requests[r].match[1].rule.respond.bodyFile[1]]
           rec == IF lookupScenario(currentScenario) # <<>>
                  THEN [requests[r] EXCEPT !.loadedScenario = lookupScenario(currentScenario)]
                  ELSE requests[r]
       IN Commit(r, respondMock(rec, readBodyFile(file), templateRuntimes, env))
  /\ UNCHANGED <<matcherVars, proxyBaseUrl, currentScenario, started>>

\* await readBodyFile(...) returns the parsed document, or the raw text
ReadBodyFileDone(r) ==
  /\ requests[r].pc = "readBodyFile"
  /\ \E env \in Envs :
       LET file == BodyFiles[requests[r].match[1].rule.respond.bodyFile[1]]
       IN Commit(r, respondMock(requests[r], readBodyFile(file), templateRuntimes, env))
  /\ UNCHANGED <<matcherVars, proxyBaseUrl, currentScenario, started>>

\* The pass-through branch from the return of proxyRequest to its return
resumeProxied(call0, outcome) ==
  LET proxied == proxyResult(outcome)
      rec == [call0 EXCEPT !.upstream = <<outcome>>, !.proxied = <<proxied>>]
  IN IF proxied.type # "success" THEN proxyFailed(rec, proxied)
     ELSE respondProxied(rec, proxied)

\* await proxyRequest(...) of the pass-through branch returns
ProxyPlainReturn(r) ==
  /\ requests[r].pc = "proxyPlain"
  /\ \E outcome \in UpstreamOutcomes(requests[r].fetches[Len(requests[r].fetches)]) :
       Commit(r, Local(resumeProxied(requests[r], outcome)))
  /\ UNCHANGED <<matcherVars, proxyBaseUrl, currentScenario, started>>

\* ScenarioState.set(next): next || undefined
SetScenario ==
  /\ \E next \in Selectable :
       /\ currentScenario' = IF next = <<>> THEN <<>> ELSE <<next>>
       /\ currentScenario' # currentScenario
  /\ completed' = <<>>
  /\ UNCHANGED <<matcherVars, proxyBaseUrl, templateRuntimes, requests, started,
                 incrementLog>>

ServerNext ==
  \/ Receive
  \/ SetScenario
  \/ \E r \in Slots : ProxyOverrideReturn(r)
  \/ \E r \in Slots : OverrideDelayDone(r)
  \/ \E r \in Slots : MockTimeoutDone(r)
  \/ \E r \in Slots : MockDelayDone(r)
  \/ \E r \in Slots : ReadBodyFileDone(r)
  \/ \E r \in Slots : ProxyPlainReturn(r)

Spec == ServerInit /\ [][ServerNext]_vars

Calls == {requests[r] : r \in {q \in Slots : requests[q].pc # "idle"}}
          \cup {completed[i] : i \in 1..Len(completed)}

Done == completed # <<>>
Answer == completed[1]

ScenarioHeaderOf(rec) == Get(rec.request[1].headers, "x-mockhub-scenario")

\* the name the scenario header gives: its first value when it is a list
NamedByHeader(rec) ==
  IF ScenarioHeaderOf(rec).t = "array" THEN ScenarioHeaderOf(rec).l[1]
  ELSE ScenarioHeaderOf(rec).s

RuleEvaluations(rec) ==
  {i \in 1..Len(rec.events) : rec.events[i].event = "rule-evaluated"}

\* C5: when a request carries the scenario header, the name it gives (the
\* first value of a multi-valued header) is the only scenario consulted: every
\* rule evaluation of the request is against that scenario, none happens when
\* the name is not a loaded scenario, and the active scenario is the resolved
\* name only when the header is absent.
C5_HeaderOverridesActive ==
  \A rec \in Calls :
    IF ScenarioHeaderOf(rec) # Undef
    THEN /\ rec.scenarioName = <<NamedByHeader(rec)>>
         /\ \A i \in RuleEvaluations(rec) : rec.events[i].scenarioId = NamedByHeader(rec)
         /\ rec.match # <<>> =>
              \E j \in 1..Len(Scenarios) :
                /\ Scenarios[j].scenario = NamedByHeader(rec)
                /\ rec.match[1].rule = Scenarios[j].rules[rec.match[1].ruleIndex + 1]
         /\ (\A j \in 1..Len(Scenarios) : Scenarios[j].scenario # NamedByHeader(rec))
              => RuleEvaluations(rec) = {}
    ELSE rec.scenarioName = rec.activeScenario

\* A request whose header names a scenario that is not loaded was answered
\* while the active scenario had a rule matching it.
C5_Witness ==
  /\ Done
  /\ Answer.reply.sent
  /\ ScenarioHeaderOf(Answer) = Str(NameGhost)
  /\ Answer.activeScenario = <<NameOutage>>
  /\ \E i \in 1..Len(Scenarios[1].rules) :
       evaluateRule(Scenarios[1].rules[i],
                    [method |-> Answer.request[1].method, path |-> Answer.request[1].path,
                     headers |-> Answer.request[1].headers,
                     query |-> Answer.request[1].query]).matched

\* C6: for each scenario the values {{increment}} produced over all requests
\* resolved against it are exactly 1, 2, ..., N in render order, also when the
\* handling of requests overlaps and renders of other scenarios come between.
C6_IncrementsAreOneToN ==
  \A n \in DOMAIN incrementLog :
    \A i \in 1..Len(incrementLog[n]) : incrementLog[n][i] = i

\* Two requests of one scenario overlapped: the first one received has just
\* been answered, after the second, with the values 3 and 4.
C6_Witness ==
  /\ Done
  /\ started = 2
  /\ Answer.seq = 1
  /\ Answer.loadedScenario # <<>>
  /\ Answer.loadedScenario[1].scenario = NameFiles
  /\ Answer.reply.body = List(<<Str(<<"3">>), Str(<<"4">>)>>)
  /\ incrementLog[NameFiles] = <<1, 2, 3, 4>>

TimeoutRule(rec) == rec.match # <<>> /\ rec.match[1].rule.respond.timeout # <<>>

MockTimeoutSent(rec) ==
  /\ rec.reply.sent
  /\ rec.reply.status = 504
  /\ rec.reply.body = MockTimeoutBody

\* C7 as stated: every request whose selected rule has respond.timeout set is
\* answered 504 {"message":"Mock timeout"}, whatever the rule's status.
C7_TimeoutAlwaysMock504 ==
  (Done /\ TimeoutRule(Answer)) => MockTimeoutSent(Answer)

SuppliesBody(rec) ==
  rec.match[1].rule.respond.body # <<>> \/ rec.match[1].rule.respond.bodyFile # <<>>

\* C7 amended: a request whose selected rule has respond.timeout set is
\* answered 504 {"message":"Mock timeout"}, whatever the rule's status, when
\* no proxy target is configured or the rule supplies a body or bodyFile.
C7_MockTimeoutUnlessProxied ==
  (Done /\ TimeoutRule(Answer) /\ (proxyBaseUrl = <<>> \/ SuppliesBody(Answer)))
    => MockTimeoutSent(Answer)

\* With a proxy target configured, a rule with a body, status 200 and a
\* timeout of 0 has been answered 504.
C7_Witness ==
  /\ Done
  /\ proxyBaseUrl # <<>>
  /\ TimeoutRule(Answer)
  /\ Answer.match[1].rule.respond.timeout = <<0>>
  /\ Answer.match[1].rule.respond.status = <<200>>
  /\ MockTimeoutSent(Answer)

\* the name is auto-gen- followed by digits only
AutoGenNamed(rec) ==
  /\ rec.scenarioName # <<>>
  /\ StartsWith(rec.scenarioName[1], AUTO_GEN_PREFIX)
  /\ AllDigits(SubSeq(rec.scenarioName[1], Len(AUTO_GEN_PREFIX) + 1,
                      Len(rec.scenarioName[1])))

AutoGenNumber(rec) ==
  DigitsValue(SubSeq(rec.scenarioName[1], Len(AUTO_GEN_PREFIX) + 1,
                     Len(rec.scenarioName[1])))

\* C8: when the resolved scenario name is auto-gen-<status> and no rule of a
\* loaded scenario matched, the upstream is never contacted for the request
\* and the response has exactly that status and an empty body.
C8_AutoGenBypassesProxy ==
  \A rec \in Calls :
    (AutoGenNamed(rec) /\ rec.match = <<>>) =>
       /\ rec.fetches = <<>>
       /\ rec.pc = "done" =>
            /\ rec.reply.sent
            /\ rec.reply.status = AutoGenNumber(rec)
            /\ rec.reply.body = Undef

OverrideAnswered(rec) ==
  /\ rec.match # <<>>
  /\ proxyBaseUrl # <<>>
  /\ ~SuppliesBody(rec)
  /\ rec.upstream # <<>>
  /\ rec.upstream[1].type = "response"

\* the value the reply carries for a header name, Undef when it has none
ReplyHeader(rec, name) == Get(rec.reply.headers, name)

RuleHeaders(rec) ==
  IF rec.match[1].rule.respond.headers = <<>> THEN <<>>
  ELSE rec.match[1].rule.respond.headers[1]

HeaderNames == DOMAIN LowerTable

\* C9: with a proxy target and a selected rule without body and bodyFile, a
\* successful upstream call yields the rule's status (the upstream status if
\* the rule has none), the upstream body unmodified, and as headers the
\* upstream's headers except the hop-by-hop ones, each replaced by the rule's
\* header of the same name (compared without case) where the rule has one.
C9_ProxyWithOverrides ==
  (Done /\ OverrideAnswered(Answer)) =>
    LET respond == Answer.match[1].rule.respond
        up == Answer.upstream[1]
    IN /\ Answer.reply.sent
       /\ Answer.reply.status = IF respond.status # <<>> THEN respond.status[1] ELSE up.status
       /\ Answer.reply.body = IF up.bytes = <<>> THEN Undef
                              ELSE [t |-> "buffer", bytes |-> up.bytes]
       /\ \A name \in {toLowerCase(h) : h \in HeaderNames} :
            LET fromRule == {i \in 1..Len(RuleHeaders(Answer)) :
                               toLowerCase(RuleHeaders(Answer)[i].k) = name}
                fromUp == {i \in 1..Len(up.headers) : toLowerCase(up.headers[i].k) = name}
            IN ReplyHeader(Answer, name) =
                 IF fromRule # {} THEN RuleHeaders(Answer)[SetMax(fromRule)].v
                 ELSE IF fromUp # {} /\ name \notin HOP_BY_HOP_HEADERS
                 THEN up.headers[SetMax(fromUp)].v
                 ELSE Undef
       /\ \A i \in 1..Len(Answer.reply.headers) :
            Answer.reply.headers[i].k \in {toLowerCase(h) : h \in HeaderNames}

\* An override rule with status 429 was answered from an upstream response
\* with status 200, a body, an etag the rule replaces, a content-type it
\* keeps and a connection header that is dropped.
C9_Witness ==
  /\ Done
  /\ OverrideAnswered(Answer)
  /\ Answer.upstream[1].status = 200
  /\ Answer.reply.status = 429
  /\ Answer.reply.body # Undef
  /\ ReplyHeader(Answer, "etag") = <<"v", "2">>
  /\ ReplyHeader(Answer, "content-type") = <<"j", "s", "o", "n">>
  /\ ReplyHeader(Answer, "connection") = Undef

\* The document the rule's body or bodyFile gives
BodySource(rec) ==
  LET respond == rec.match[1].rule.respond
  IN IF respond.bodyFile # <<>>
     THEN (IF BodyFiles[respond.bodyFile[1]].json # <<>>
           THEN BodyFiles[respond.bodyFile[1]].json[1]
           ELSE Str(BodyFiles[respond.bodyFile[1]].text))
     ELSE respond.body[1]

\* body is the source with its templates resolved, for some counter state
IsRendering(body, source) ==
  \E k \in 0..(2 * MaxRequests), env \in Envs :
    LET r == renderTemplates(source, [counter |-> k, issued |-> <<>>], env)
    IN ~r.threw /\ r.value = body

ProxyReturns(r) ==
  /\ requests[r].pc \in {"proxyOverride", "proxyPlain"}
  /\ requests'[r] # requests[r]

\* the locals of the call of slot r after the step
Resumed(r) == IF requests'[r].pc = "idle" THEN completed'[1] ELSE requests'[r]

FixedReply(rec, status, body) ==
  /\ rec.pc = "done"
  /\ rec.thrown = <<>>
  /\ rec.reply.sent
  /\ rec.reply.status = status
  /\ rec.reply.body = body

\* C11: in the proxy-with-overrides and in the pass-through path, when the
\* upstream call is aborted by the timeout the request ends at once with 504
\* {"message":"Proxy timeout"}, and when it fails otherwise with 502
\* {"message":"Proxy error"}; nothing is thrown out of the handler, and the step
\* leaves every other request in flight and the shared state as they were.
C11_ProxyFailureIsFixedReply ==
  [][\A r \in Slots :
       ProxyReturns(r) =>
         /\ Resumed(r).upstream[1].type = "abort" => FixedReply(Resumed(r), 504, ProxyTimeoutBody)
         /\ Resumed(r).upstream[1].type = "failure" => FixedReply(Resumed(r), 502, ProxyErrorBody)
         /\ Resumed(r).upstream[1].type # "response" =>
              /\ \A q \in Slots \ {r} : requests'[q] = requests[q]
              /\ templateRuntimes' = templateRuntimes
              /\ currentScenario' = currentScenario]_vars

\* The upstream call of an override rule was aborted and answered 504 while
\* another request was waiting for the upstream.
C11_Witness ==
  /\ Done
  /\ Answer.match # <<>>
  /\ Answer.upstream = <<[type |-> "abort"]>>
  /\ Answer.reply.status = 504
  /\ Answer.reply.body = ProxyTimeoutBody
  /\ \E q \in Slots : requests[q].pc = "proxyPlain"

UpstreamFailed(rec) == rec.upstream # <<>> /\ rec.upstream[1].type # "response"

Completions(rec) ==
  {i \in 1..Len(rec.events) : rec.events[i].event = "execution-complete"}

\* C12: the upstream is contacted at most once for a request; once the
\* upstream call has timed out or failed the request has ended with the fixed
\* 504 or 502 reply, as its only completion, without a body having been
\* rendered and without the happy-path response.
C12_UpstreamContactedAtMostOnce ==
  \A rec \in Calls :
    /\ Len(rec.fetches) <= 1
    /\ UpstreamFailed(rec) =>
         /\ rec.pc = "done"
         /\ Len(rec.fetches) = 1
         /\ rec.reply.sent
         /\ \/ rec.reply.status = 504 /\ rec.reply.body = ProxyTimeoutBody
            \/ rec.reply.status = 502 /\ rec.reply.body = ProxyErrorBody
         /\ Completions(rec) = {Len(rec.events)}
         /\ rec.events[Len(rec.events)].source \in {"timeout", "proxy"}
         /\ rec.events[Len(rec.events)].status = rec.reply.status
         /\ \A i \in 1..Len(rec.events) :
              rec.events[i].event \notin {"templates-applied", "scenario-matched"}

\* The upstream failed for a request without a matching rule whose route
\* declares responses: it was answered 502 after one upstream call.
C12_Witness ==
  /\ Done
  /\ Answer.match = <<>>
  /\ Answer.route # <<>>
  /\ Answer.upstream = <<[type |-> "failure"]>>
  /\ Len(Answer.fetches) = 1
  /\ Answer.reply.status = 502

PassedThrough(rec) ==
  /\ proxyBaseUrl # <<>>
  /\ rec.match = <<>>
  /\ ~AutoGenNamed(rec)

\* the upstream's headers that are not hop-by-hop, by lower-cased name
Relayed(up, name) ==
  LET at == {i \in 1..Len(up.headers) : toLowerCase(up.headers[i].k) = name}
  IN IF at # {} /\ name \notin HOP_BY_HOP_HEADERS THEN up.headers[SetMax(at)].v ELSE Undef

\* C13: with a proxy target configured, a request that matched no rule and
\* whose resolved name is not an auto-gen name is forwarded with its own
\* method and path, and when the upstream answers the reply has the upstream's
\* status, its body and its headers except the hop-by-hop ones, unchanged; no
\* request is answered from the OpenAPI responses while a proxy target is
\* configured.
C13_PassThroughRelaysUpstream ==
  \A rec \in Calls :
    /\ PassedThrough(rec) =>
         /\ Len(rec.fetches) = 1
         /\ rec.fetches[1].method = rec.request[1].method
         /\ rec.fetches[1].url = rec.request[1].path
         /\ (rec.pc = "done" /\ rec.upstream[1].type = "response") =>
              /\ rec.reply.sent
              /\ rec.reply.status = rec.upstream[1].status
              /\ rec.reply.body = IF rec.upstream[1].bytes = <<>> THEN Undef
                                  ELSE [t |-> "buffer", bytes |-> rec.upstream[1].bytes]
              /\ \A name \in {toLowerCase(h) : h \in HeaderNames} :
                   ReplyHeader(rec, name) = Relayed(rec.upstream[1], name)
              /\ \A i \in 1..Len(rec.reply.headers) :
                   rec.reply.headers[i].k \in {toLowerCase(h) : h \in HeaderNames}
    /\ proxyBaseUrl # <<>> =>
         \A i \in 1..Len(rec.events) :
           rec.events[i].event = "execution-complete" => rec.events[i].source # "happy-path"

\* A request for a route that declares responses matched no rule and was
\* answered with the upstream's 404 and empty body; the upstream's
\* transfer-encoding header was not relayed.
C13_Witness ==
  /\ Done
  /\ PassedThrough(Answer)
  /\ Answer.route # <<>>
  /\ Answer.upstream # <<>>
  /\ Answer.upstream[1].type = "response"
  /\ Answer.upstream[1].status = 404
  /\ Answer.reply.status = 404
  /\ Answer.reply.body = Undef
  /\ Answer.reply.headers = <<>>

CompletionSources(rec) == {rec.events[i].source : i \in Completions(rec)}

\* C23: every request to which handleRequest has sent a response has emitted
\* exactly one execution-complete event, as its last event, and the status of
\* that event is the status code of the response; its source is one of
\* scenario, proxy, timeout, auto-gen and happy-path.
C23_OneCompletionWithReplyStatus ==
  \A rec \in Calls :
    rec.reply.sent =>
      /\ Cardinality(Completions(rec)) = 1
      /\ \A i \in Completions(rec) :
           /\ i = Len(rec.events)
           /\ rec.events[i].status = rec.reply.status
           /\ rec.events[i].source \in {"scenario", "proxy", "timeout", "auto-gen", "happy-path"}

\* A request matched the rule with a body and a timeout and was answered 504
\* after the sleep; its only completion is the last event, of source timeout
\* and status 504.
C23_Witness ==
  /\ Done
  /\ Answer.match # <<>>
  /\ Answer.match[1].rule = RuleLate
  /\ Answer.reply.sent
  /\ Answer.reply.status = 504
  /\ Completions(Answer) = {Len(Answer.events)}
  /\ CompletionSources(Answer) = {"timeout"}
  /\ Answer.events[Len(Answer.events)].status = 504

----------------------------------------------------------------------------
(* Inputs of the matcher runs *)

QueryDryRun == <<[k |-> "dryRun", v |-> <<"t", "r", "u", "e">>]>>
HeadersPremium == <<[k |-> "X-User-Type", v |-> Str(<<"p", "r", "e", "m", "i", "u", "m">>)]>>
HeadersAnyMode == <<[k |-> "X-Mode", v |-> Null]>>

MatchUniverse ==
  {[path |-> p, method |-> m, headers |-> h, query |-> q] :
     p \in {PathContractsId, PatternWild},
     m \in {"", "get"},
     h \in {<<>>},
     q \in {<<>>, <<QueryDryRun>>}}
  \cup {[path |-> PathContracts, method |-> "", headers |-> <<>>, query |-> <<>>],
        [path |-> PatternWild, method |-> "", headers |-> <<HeadersPremium>>, query |-> <<>>],
        [path |-> PatternWild, method |-> "POST", headers |-> <<HeadersPremium>>, query |-> <<>>],
        [path |-> PatternWild, method |-> "", headers |-> <<HeadersAnyMode>>,
         query |-> <<QueryDryRun>>]}

RespondStub ==
  [status |-> <<200>>, body |-> <<>>, bodyFile |-> <<>>, headers |-> <<>>,
   delayMs |-> <<>>, timeout |-> <<>>]

RuleOf(m) == [id |-> <<>>, match |-> m, respond |-> RespondStub]

RuleLists ==
  UNION {[1..n -> {RuleOf(m) : m \in MatchUniverse}] : n \in 0..MaxRules}

MatcherRequests ==
  {[method |-> "GET", path |-> PathContractsId, headers |-> <<>>, query |-> <<>>],
   [method |-> "GET", path |-> PathContractsId, headers |-> <<>>,
    query |-> <<[k |-> "dryRun", v |-> Str(<<"t", "r", "u", "e">>)]>>],
   [method |-> "POST", path |-> PathContractsId,
    headers |-> <<[k |-> "x-user-type", v |-> Str(<<"p", "r", "e", "m", "i", "u", "m">>)]>>,
    query |-> <<[k |-> "dryRun", v |-> List(<<<<"t", "r", "u", "e">>, <<"f", "a", "l", "s", "e">>>>)]>>],
   [method |-> "GET", path |-> PathContractsId,
    headers |-> <<[k |-> "x-user-type", v |-> List(<<<<"b", "a", "s", "i", "c">>, <<"p", "r", "e", "m", "i", "u", "m">>>>)],
                  [k |-> "x-mode", v |-> Str(<<"f", "a", "s", "t">>)]>>,
    query |-> <<[k |-> "dryRun", v |-> Str(<<"t", "r", "u", "e">>)]>>],
   [method |-> "GET", path |-> PathContracts, headers |-> <<>>, query |-> <<>>]}

----------------------------------------------------------------------------
(* findMatchingRule, one loop iteration per step *)

MatchInit ==
  /\ call \in {[op |-> "findMatchingRule", rules |-> rs, request |-> rq] :
                 rs \in RuleLists, rq \in MatcherRequests}
  /\ loop = findMatchingRuleStart
  /\ ret = <<>>
  /\ ServerStopped

MatchIterate ==
  /\ call.op = "findMatchingRule"
  /\ ret = <<>>
  /\ loop.index < Len(call.rules)
  /\ loop' = findMatchingRuleStep(loop, call.rules, call.request)
  /\ UNCHANGED <<call, ret>>
  /\ UNCHANGED serverVars

MatchReturn ==
  /\ call.op = "findMatchingRule"
  /\ ret = <<>>
  /\ loop.index >= Len(call.rules)
  /\ ret' = <<[match |-> loop.bestMatch]>>
  /\ UNCHANGED <<call, loop>>
  /\ UNCHANGED serverVars

MatchNext == MatchIterate \/ MatchReturn

SpecMatch == MatchInit /\ [][MatchNext]_vars

MatchReturned == call.op = "findMatchingRule" /\ ret # <<>>

\* The zero-based indexes of the rules of the call that match its request
MatchingIndexes ==
  {i \in 0..(Len(call.rules) - 1) : evaluateRule(call.rules[i + 1], call.request).matched}

ScoreAt(i) == scoreMatchSpecificity(call.rules[i + 1].match)

\* C1: when at least one rule of the list matches the request, the rule
\* findMatchingRule returns is one of the matching rules and its specificity
\* score is maximal among the matching rules, for every order of the list.
C1_HighestScoreReturned ==
  (MatchReturned /\ MatchingIndexes # {}) =>
    /\ ret[1].match # <<>>
    /\ ret[1].match[1].ruleIndex \in MatchingIndexes
    /\ ret[1].match[1].rule = call.rules[ret[1].match[1].ruleIndex + 1]
    /\ \A j \in MatchingIndexes : ScoreAt(j) <= ScoreAt(ret[1].match[1].ruleIndex)

\* A call has returned a rule that is not the first matching rule, because a
\* later matching rule has a strictly higher score.
C1_Witness ==
  /\ MatchReturned
  /\ ret[1].match # <<>>
  /\ \E j \in MatchingIndexes :
       /\ j < ret[1].match[1].ruleIndex
       /\ ScoreAt(j) < ScoreAt(ret[1].match[1].ruleIndex)

\* C2: when several matching rules share the maximal score, the returned rule
\* is the one with the lowest index among them.
C2_FirstDeclaredWinsTies ==
  (MatchReturned /\ ret[1].match # <<>>) =>
    \A j \in MatchingIndexes :
      ScoreAt(j) = ScoreAt(ret[1].match[1].ruleIndex) => ret[1].match[1].ruleIndex <= j

\* A call has returned while two different matching rules both have the
\* maximal score.
C2_Witness ==
  /\ MatchReturned
  /\ ret[1].match # <<>>
  /\ \E j \in MatchingIndexes :
       /\ j > ret[1].match[1].ruleIndex
       /\ ScoreAt(j) = ScoreAt(ret[1].match[1].ruleIndex)
       /\ call.rules[j + 1] # call.rules[ret[1].match[1].ruleIndex + 1]

\* C3: findMatchingRule evaluates every rule and never stops at the first
\* match: after k iterations the observer has been called exactly k times,
\* call i for rule index i - 1 with that rule and its matched / not-matched
\* result; the function returns only after all rules were evaluated, and it
\* returns none exactly when no rule matches.
C3_EveryRuleObservedInOrder ==
  call.op = "findMatchingRule" =>
    /\ Len(loop.observed) = loop.index
    /\ \A i \in 1..Len(loop.observed) :
         /\ loop.observed[i].ruleIndex = i - 1
         /\ loop.observed[i].rule = call.rules[i]
         /\ loop.observed[i].result.matched = ((i - 1) \in MatchingIndexes)
    /\ ret # <<>> =>
         /\ Len(loop.observed) = Len(call.rules)
         /\ (ret[1].match = <<>>) <=> (MatchingIndexes = {})

\* A call has returned after a match at the first rule was followed by the
\* evaluation of a rule that does not match and of another that does.
C3_Witness ==
  /\ MatchReturned
  /\ Len(call.rules) = 3
  /\ 0 \in MatchingIndexes
  /\ 1 \notin MatchingIndexes
  /\ 2 \in MatchingIndexes
  /\ Len(loop.observed) = 3

----------------------------------------------------------------------------
(* Scenario validation: one file, then the set of files *)

ROOT_KEYS == {"scenario", "description", "rules", "version"}
RULE_KEYS == {"id", "match", "respond"}
MATCH_KEYS == {"path", "method", "query", "headers"}
RESPOND_KEYS == {"status", "body", "bodyFile", "headers", "delayMs", "timeout"}

VALID_METHODS ==
  {<<"G", "E", "T">>, <<"P", "O", "S", "T">>, <<"P", "U", "T">>, <<"D", "E", "L", "E", "T", "E">>, <<"P", "A", "T", "C", "H">>, <<"O", "P", "T", "I", "O", "N", "S">>, <<"H", "E", "A", "D">>}

RESERVED_SCENARIO_PREFIXES == <<<<"a", "u", "t", "o", "-", "g", "e", "n", "-">>>>

isPlainObject(value) == value.t = "object"

\* value[key] of a value that is an object
Prop(value, key) == Get(value.e, key)

\* the text of an array index inside an error path
IndexText(i) == <<"0", "1", "2", "3", "4">>[i + 1]

\* pushError: the entry that is appended.  path holds the pieces of the
\* pointer, message the fixed text and arg the value quoted inside it.
pushError(file, pathKey, message, arg, severity, ruleId) ==
  [file |-> file, path |-> pathKey, message |-> message, arg |-> arg,
   severity |-> severity, ruleId |-> ruleId]

\* the entries for cond: one error when it holds
When(cond, entry) == IF cond THEN <<entry>> ELSE <<>>

RECURSIVE Flat(_)
Flat(lists) == IF lists = <<>> THEN <<>> ELSE Head(lists) \o Flat(Tail(lists))

HasSeverity(errors, severity) == \E i \in 1..Len(errors) : errors[i].severity = severity

IsSpace(c) == c \in {" ", "\t", "\n"}

RECURSIVE trimStart(_)
trimStart(s) == IF s # <<>> /\ IsSpace(s[1]) THEN trimStart(Tail(s)) ELSE s

RECURSIVE trimEnd(_)
trimEnd(s) ==
  IF s # <<>> /\ IsSpace(s[Len(s)]) THEN trimEnd(SubSeq(s, 1, Len(s) - 1)) ELSE s

trim(s) == trimEnd(trimStart(s))

\* typeof value !== 'string' || value.trim().length === 0
notNonEmptyString(value) == value.t # "string" \/ Len(trim(value.s)) = 0

\* /^\d+\.\d+\.\d+$/.test(version)
isVersion(version) ==
  /\ Len(Split(version, ".")) = 3
  /\ \A i \in 1..3 : AllDigits(Split(version, ".")[i])

\* the keys of value that are not allowed, in the order of Object.keys
unknownKeys(value, allowed) ==
  LET keys == [i \in 1..Len(value.e) |-> value.e[i].k]
  IN SelectSeq(keys, LAMBDA key : key \notin allowed)

\* parseYamlStrict: doc is what YAML.parseDocument made of the content, its
\* errors, its warnings and the value toJS returns
parseYamlStrict(filePath, doc) ==
  LET errors ==
        [i \in 1..Len(doc.errors) |->
           pushError(filePath, <<>>, doc.errors[i], <<>>, "error", <<>>)]
        \o [i \in 1..Len(doc.warnings) |->
              pushError(filePath, <<>>, doc.warnings[i], <<>>, "warning", <<>>)]
  IN IF HasSeverity(errors, "error") THEN [data |-> <<>>, errors |-> errors]
     ELSE [data |-> <<doc.contents>>, errors |-> errors]

validateRootObject(value, filePath) ==
  IF ~isPlainObject(value)
  THEN <<pushError(filePath, <<>>, "Root document must be an object", <<>>, "error", <<>>)>>
  ELSE [i \in 1..Len(unknownKeys(value, ROOT_KEYS)) |->
          pushError(filePath, <<unknownKeys(value, ROOT_KEYS)[i]>>, "Unknown root key",
                    <<unknownKeys(value, ROOT_KEYS)[i]>>, "error", <<>>)]
       \o When(notNonEmptyString(Prop(value, "scenario")),
               pushError(filePath, <<"scenario">>,
                         "Scenario name must be a non-empty string", <<>>, "error", <<>>))
       \o When(Prop(value, "description").t \notin {"undefined", "string"},
               pushError(filePath, <<"description">>, "Description must be a string",
                         <<>>, "error", <<>>))
       \o (IF Prop(value, "version") = Undef THEN <<>>
           ELSE IF Prop(value, "version").t # "string"
           THEN <<pushError(filePath, <<"version">>,
                            "Version must be a string in x.y.z format", <<>>, "error", <<>>)>>
           ELSE When(~isVersion(Prop(value, "version").s),
                     pushError(filePath, <<"version">>, "Version must match x.y.z",
                               Prop(value, "version").s, "error", <<>>)))
       \o When(Prop(value, "rules").t # "array" \/ Len(Prop(value, "rules").l) = 0,
               pushError(filePath, <<"rules">>, "Rules must be a non-empty array",
                         <<>>, "error", <<>>))

\* the entries of an object whose value fails the test, as errors below base
entryErrors(obj, Bad(_), filePath, base, message, ruleId) ==
  LET bad == SelectSeq(obj.e, LAMBDA entry : Bad(entry.v))
  IN [i \in 1..Len(bad) |->
        pushError(filePath, Append(base, bad[i].k), message, <<>>, "error", ruleId)]

\* the number of * in path
wildcardCount(path) == Cardinality({i \in 1..Len(path) : path[i] = "*"})

\* validateRule, the checks of rule.match
validateMatch(match, filePath, base, ruleId) ==
  IF ~isPlainObject(match)
  THEN <<pushError(filePath, base, "match must be an object", <<>>, "error", ruleId)>>
  ELSE [i \in 1..Len(unknownKeys(match, MATCH_KEYS)) |->
          pushError(filePath, Append(base, unknownKeys(match, MATCH_KEYS)[i]),
                    "Unknown match key", <<unknownKeys(match, MATCH_KEYS)[i]>>,
                    "error", ruleId)]
       \o (IF notNonEmptyString(Prop(match, "path"))
           THEN <<pushError(filePath, Append(base, "path"),
                            "path must be a non-empty string", <<>>, "error", ruleId)>>
           ELSE When(~StartsWith(Prop(match, "path").s, <<"/">>),
                     pushError(filePath, Append(base, "path"), "path must start with /",
                               <<>>, "error", ruleId))
                \o When(wildcardCount(Prop(match, "path").s) > 1,
                        pushError(filePath, Append(base, "path"),
                                  "path supports at most one * wildcard", <<>>,
                                  "error", ruleId)))
       \o (IF Prop(match, "method") = Undef THEN <<>>
           ELSE IF Prop(match, "method").t # "string"
           THEN <<pushError(filePath, Append(base, "method"), "method must be a string",
                            <<>>, "error", ruleId)>>
           ELSE When(Prop(match, "method").s \notin VALID_METHODS,
                     pushError(filePath, Append(base, "method"),
                               "is not a valid HTTP method", Prop(match, "method").s,
                               "error", ruleId)))
       \o (IF Prop(match, "query") = Undef THEN <<>>
           ELSE IF ~isPlainObject(Prop(match, "query"))
           THEN <<pushError(filePath, Append(base, "query"), "query must be an object",
                            <<>>, "error", ruleId)>>
           ELSE entryErrors(Prop(match, "query"), LAMBDA v : v.t # "string", filePath,
                            Append(base, "query"), "query values must be strings", ruleId))
       \o (IF Prop(match, "headers") = Undef THEN <<>>
           ELSE IF ~isPlainObject(Prop(match, "headers"))
           THEN <<pushError(filePath, Append(base, "headers"), "headers must be an object",
                            <<>>, "error", ruleId)>>
           ELSE entryErrors(Prop(match, "headers"),
                            LAMBDA v : v.t \notin {"null", "undefined", "string"},
                            filePath, Append(base, "headers"),
                            "header values must be strings or null", ruleId))

\* typeof value !== 'number' || value < 0
notNonNegative(value) == value.t # "number" \/ lessThan(value, 0)

\* validateRule, the checks of rule.respond
validateRespond(respond, filePath, base, ruleId) ==
  IF ~isPlainObject(respond)
  THEN <<pushError(filePath, base, "respond must be an object", <<>>, "error", ruleId)>>
  ELSE [i \in 1..Len(unknownKeys(respond, RESPOND_KEYS)) |->
          pushError(filePath, Append(base, unknownKeys(respond, RESPOND_KEYS)[i]),
                    "Unknown respond key", <<unknownKeys(respond, RESPOND_KEYS)[i]>>,
                    "error", ruleId)]
       \o (IF Prop(respond, "status") = Undef
           THEN <<pushError(filePath, Append(base, "status"), "status is required",
                            <<>>, "error", ruleId)>>
           ELSE IF Prop(respond, "status").t # "number" \/ ~Prop(respond, "status").finite
           THEN <<pushError(filePath, Append(base, "status"), "status must be a number",
                            <<>>, "error", ruleId)>>
           ELSE When(lessThan(Prop(respond, "status"), 100)
                     \/ greaterThan(Prop(respond, "status"), 599),
                     pushError(filePath, Append(base, "status"),
                               "status must be between 100 and 599", <<>>, "error", ruleId)))
       \o When(Prop(respond, "body") # Undef /\ Prop(respond, "bodyFile") # Undef,
               pushError(filePath, base, "Only one of body or bodyFile may be provided",
                         <<>>, "error", ruleId))
       \o When(Prop(respond, "bodyFile").t \notin {"undefined", "string"},
               pushError(filePath, Append(base, "bodyFile"), "bodyFile must be a string",
                         <<>>, "error", ruleId))
       \o (IF Prop(respond, "headers") = Undef THEN <<>>
           ELSE IF ~isPlainObject(Prop(respond, "headers"))
           THEN <<pushError(filePath, Append(base, "headers"), "headers must be an object",
                            <<>>, "error", ruleId)>>
           ELSE entryErrors(Prop(respond, "headers"), LAMBDA v : v.t # "string", filePath,
                            Append(base, "headers"), "header values must be strings",
                            ruleId))
       \o When(Prop(respond, "delayMs") # Undef /\ notNonNegative(Prop(respond, "delayMs")),
               pushError(filePath, Append(base, "delayMs"), "delayMs must be >= 0",
                         <<>>, "error", ruleId))
       \o When(Prop(respond, "timeout") # Undef /\ notNonNegative(Prop(respond, "timeout")),
               pushError(filePath, Append(base, "timeout"), "timeout must be >= 0",
                         <<>>, "error", ruleId))

\* the rule id attached to the errors of a rule
ruleIdOf(rule) ==
  IF isPlainObject(rule) /\ Prop(rule, "id").t = "string" THEN <<Prop(rule, "id").s>>
  ELSE <<>>

\* validateRule(rule, filePath, index), index counted from 0
validateRule(rule, filePath, index) ==
  IF ~isPlainObject(rule)
  THEN <<pushError(filePath, <<"rules", IndexText(index)>>, "Rule must be an object",
                   <<>>, "error", <<>>)>>
  ELSE [i \in 1..Len(unknownKeys(rule, RULE_KEYS)) |->
          pushError(filePath, <<"rules", IndexText(index), unknownKeys(rule, RULE_KEYS)[i]>>,
                    "Unknown rule key", <<unknownKeys(rule, RULE_KEYS)[i]>>, "error",
                    ruleIdOf(rule))]
       \o When(Prop(rule, "id") # Undef /\ notNonEmptyString(Prop(rule, "id")),
               pushError(filePath, <<"rules", IndexText(index), "id">>,
                         "Rule id must be a non-empty string", <<>>, "error",
                         ruleIdOf(rule)))
       \o validateMatch(Prop(rule, "match"), filePath,
                        <<"rules", IndexText(index), "match">>, ruleIdOf(rule))
       \o validateRespond(Prop(rule, "respond"), filePath,
                          <<"rules", IndexText(index), "respond">>, ruleIdOf(rule))

\* rule.id in validateRuleIds: reading a property of null or undefined
\* raises a TypeError, any other value without the property gives undefined
readId(rule) ==
  IF rule.t \in {"null", "undefined"} THEN [threw |-> TRUE, id |-> Undef]
  ELSE IF isPlainObject(rule) THEN [threw |-> FALSE, id |-> Prop(rule, "id")]
  ELSE [threw |-> FALSE, id |-> Undef]

\* Variant: only a rule that repeats the id of the rule before it is reported
RECURSIVE validateRuleIds_adjacentOnly(_, _, _, _, _)
validateRuleIds_adjacentOnly(rules, filePath, index, seen, errors) ==
  IF index >= Len(rules) THEN [threw |-> FALSE, errors |-> errors]
  ELSE IF readId(rules[index + 1]).threw THEN [threw |-> TRUE, errors |-> errors]
  ELSE IF ~IsTruthy(readId(rules[index + 1]).id)
  THEN validateRuleIds_adjacentOnly(rules, filePath, index + 1, seen, errors)
  ELSE validateRuleIds_adjacentOnly(
         rules, filePath, index + 1, {readId(rules[index + 1]).id},
         errors \o When(readId(rules[index + 1]).id \in seen,
                        pushError(filePath, <<"rules", IndexText(index), "id">>,
                                  "Duplicate rule id", String(readId(rules[index + 1]).id),
                                  "error", <<String(readId(rules[index + 1]).id)>>)))

\* validateRuleIds from rule number index on: seen is the Set of ids, errors
\* the entries pushed so far; threw when the callback raised
RECURSIVE validateRuleIds(_, _, _, _, _)
validateRuleIds(rules, filePath, index, seen, errors) ==
  IF index >= Len(rules) THEN [threw |-> FALSE, errors |-> errors]
  ELSE IF readId(rules[index + 1]).threw THEN [threw |-> TRUE, errors |-> errors]
  ELSE IF ~IsTruthy(readId(rules[index + 1]).id)
  THEN validateRuleIds(rules, filePath, index + 1, seen, errors)
  ELSE validateRuleIds(
         rules, filePath, index + 1, seen \cup {readId(rules[index + 1]).id},
         errors \o When(readId(rules[index + 1]).id \in seen,
                        pushError(filePath, <<"rules", IndexText(index), "id">>,
                                  "Duplicate rule id", String(readId(rules[index + 1]).id),
                                  "error", <<String(readId(rules[index + 1]).id)>>)))

validateScenarioName(name, filePath) ==
  Flat([i \in 1..Len(RESERVED_SCENARIO_PREFIXES) |->
          When(StartsWith(name, RESERVED_SCENARIO_PREFIXES[i]),
               pushError(filePath, <<"scenario">>, "Scenario name uses reserved prefix",
                         name, "error", <<>>))])

\* Variant: validation stops at the first entry found after the root object
validateRules_firstEntryOnly(data, filePath, errors) ==
  LET rules == Prop(data, "rules").l
      ruleErrors == Flat([i \in 1..Len(rules) |-> validateRule(rules[i], filePath, i - 1)])
      idErrors == validateRuleIds(rules, filePath, 0, {}, <<>>)
      nameErrors == validateScenarioName(Prop(data, "scenario").s, filePath)
      found == ruleErrors \o idErrors.errors \o nameErrors
      all == errors \o (IF found = <<>> THEN <<>> ELSE <<found[1]>>)
  IN IF idErrors.threw THEN [threw |-> TRUE, scenario |-> <<>>, errors |-> <<>>]
     ELSE IF HasSeverity(all, "error")
     THEN [threw |-> FALSE, scenario |-> <<>>, errors |-> all]
     ELSE [threw |-> FALSE, scenario |-> <<data>>, errors |-> all]

\* validateScenarioFile after the root object was found valid
validateRules(data, filePath, errors) ==
  LET rules == Prop(data, "rules").l
      ruleErrors == Flat([i \in 1..Len(rules) |-> validateRule(rules[i], filePath, i - 1)])
      idErrors == validateRuleIds(rules, filePath, 0, {}, <<>>)
      nameErrors == validateScenarioName(Prop(data, "scenario").s, filePath)
      all == errors \o ruleErrors \o idErrors.errors \o nameErrors
  IN IF idErrors.threw THEN [threw |-> TRUE, scenario |-> <<>>, errors |-> <<>>]
     ELSE IF HasSeverity(all, "error")
     THEN [threw |-> FALSE, scenario |-> <<>>, errors |-> all]
     ELSE [threw |-> FALSE, scenario |-> <<data>>, errors |-> all]

\* validateScenarioFile(filePath) for the parsed content doc of the file:
\* the ValidationResult, or threw when the call raised
validateScenarioFile(filePath, doc) ==
  LET parseResult == parseYamlStrict(filePath, doc)
  IN IF parseResult.data = <<>> \/ ~IsTruthy(parseResult.data[1])
     THEN [threw |-> FALSE, scenario |-> <<>>, errors |-> parseResult.errors]
     ELSE IF Len(validateRootObject(parseResult.data[1], filePath)) > 0
     THEN [threw |-> FALSE, scenario |-> <<>>,
           errors |-> parseResult.errors \o validateRootObject(parseResult.data[1], filePath)]
     ELSE validateRules(parseResult.data[1], filePath, parseResult.errors)


\* scenario.scenario of a loaded scenario
scenarioNameOf(scenario) == Prop(scenario.data, "scenario").s

\* validateScenarioSet from scenario number index on: seen maps the names met
\* so far to the file that declared them
RECURSIVE validateScenarioSet(_, _, _, _, _)
validateScenarioSet(scenarios, sourceDir, index, seen, errors) ==
  IF index > Len(scenarios) THEN errors
  ELSE IF scenarioNameOf(scenarios[index]) \in DOMAIN seen
  THEN validateScenarioSet(
         scenarios, sourceDir, index + 1, seen,
         Append(errors, pushError(scenarios[index].sourcePath, <<"scenario">>,
                                  "Duplicate scenario name",
                                  scenarioNameOf(scenarios[index]), "error", <<>>)))
  ELSE validateScenarioSet(
         scenarios, sourceDir, index + 1,
         [n \in DOMAIN seen \cup {scenarioNameOf(scenarios[index])} |->
            IF n \in DOMAIN seen THEN seen[n] ELSE scenarios[index].sourcePath],
         errors)

----------------------------------------------------------------------------
(* Startup: the run action of the command line and loadScenarios *)

\* The locals of the run action and of loadScenarios before the first step.
\* pc is the await the action is suspended at; result is what the last
\* validateScenarioFile call returned.
RunStart ==
  [pc |-> "start", index |-> 0, scenarios |-> <<>>, validationErrors |-> <<>>,
   result |-> <<>>, events |-> <<>>, listening |-> FALSE, exitCode |-> 0]

emitEvent(run, event) == [run EXCEPT !.events = Append(@, event)]

\* the catch block of the run action
startupFailed(run, message) ==
  [emitEvent(run, [event |-> "startup-failed", message |-> message])
     EXCEPT !.pc = "exited", !.exitCode = 1]

\* the first lines of loadScenarios
loadScenariosEntry(run, options) ==
  IF options.source = <<>>
  THEN [emitEvent(run, [event |-> "scenarios-discovered", scenarios |-> {}])
          EXCEPT !.pc = "loaded"]
  ELSE [emitEvent(run, [event |-> "config-files",
                        files |-> [i \in 1..Len(options.files) |-> options.files[i].path]])
          EXCEPT !.pc = "validating", !.index = 1]

\* the run action up to its first await inside loadScenarios
runEntry(run, options) ==
  IF options.proxy = <<>> /\ options.spec = <<>>
  THEN startupFailed(run, "OpenAPI spec is required when not using --proxy")
  ELSE IF options.spec # <<>> /\ ~options.specLoads
  THEN startupFailed(run, "loadOpenApiSpec failed")
  ELSE loadScenariosEntry(run, options)

\* one turn of the loop over the scenario files
validateFileStep(run, file, sourceDir) ==
  LET result == validateScenarioFile(file.path, file.doc)
  IN IF result.threw THEN startupFailed([run EXCEPT !.result = <<>>], "TypeError")
     ELSE IF Len(result.errors) > 0
     THEN [emitEvent(run, [event |-> "validation-file", file |-> file.path,
                           result |-> "failed", errors |-> Len(result.errors)])
             EXCEPT !.validationErrors = @ \o result.errors,
                    !.result = <<result>>, !.index = @ + 1]
     ELSE [emitEvent(run, [event |-> "validation-file", file |-> file.path,
                           result |-> "ok", errors |-> 0])
             EXCEPT !.scenarios = IF result.scenario # <<>>
                                  THEN Append(@, [data |-> result.scenario[1],
                                                  sourcePath |-> file.path,
                                                  sourceDir |-> sourceDir])
                                  ELSE @,
                    !.result = <<result>>, !.index = @ + 1]

\* validationErrors after the cross-file check
withSetErrors(run, sourceDir) ==
  IF Len(run.scenarios) > 0
  THEN run.validationErrors
       \o validateScenarioSet(run.scenarios, sourceDir, 1, <<>>, <<>>)
  ELSE run.validationErrors

countSeverity(errors, severity) ==
  Cardinality({i \in 1..Len(errors) : errors[i].severity = severity})

\* errorList.length > 0
loadFailed(validationErrors) == countSeverity(validationErrors, "error") > 0

\* loadScenarios after the loop: cross-file check, events, verdict.  The sorted
\* names of scenarios-discovered are kept as the set they are the sorting of.
loadScenariosExit(run, validationErrors) ==
  LET reported ==
        emitEvent(emitEvent([run EXCEPT !.validationErrors = validationErrors],
                            [event |-> "scenarios-discovered",
                             scenarios |-> {scenarioNameOf(run.scenarios[i]) :
                                              i \in 1..Len(run.scenarios)}]),
                  [event |-> "validation-summary",
                   errors |-> countSeverity(validationErrors, "error"),
                   warnings |-> countSeverity(validationErrors, "warning")])
  IN IF loadFailed(validationErrors) THEN startupFailed(reported, "validation errors")
     ELSE [reported EXCEPT !.pc = "loaded"]

\* the run action after loadScenarios returned: startServer listens or fails
startServer(run, options, listens) ==
  LET announced == emitEvent(run, [event |-> "startup", spec |-> options.spec,
                                 sourceDir |-> options.source,
                                 proxyBaseUrl |-> options.proxy])
  IN IF listens
     THEN [emitEvent(announced, [event |-> "server-ready"])
             EXCEPT !.pc = "serving", !.listening = TRUE]
     ELSE startupFailed(announced, "listen failed")


----------------------------------------------------------------------------
(* The happy path on bounded response tables *)

\* The keys of a responses object in the order Object.keys gives them:
\* integer keys ascending, then the others
ResponseKeys == <<<<"2", "0", "0">>, <<"2", "0", "4">>, <<"4", "0", "4">>, <<"d", "e", "f", "a", "u", "l", "t">>>>

\* examples: none, a string, and the number 0
Examples == {Undef, Str(<<"A">>), Num(0)}

ResponseObjects ==
  {[content |-> <<>>]}
  \cup {[content |-> <<<<[k |-> "application/json", v |-> MediaType(e, s)]>>>>] :
          e \in Examples, s \in {<<>>, <<"schema">>}}

Ascending(I) ==
  CHOOSE s \in [1..Cardinality(I) -> I] : \A i, j \in 1..Cardinality(I) : i < j => s[i] < s[j]

\* The responses objects with at most MaxResponses of the keys
ResponseTables ==
  UNION {{[i \in 1..Cardinality(I) |-> [k |-> ResponseKeys[Ascending(I)[i]],
                                        v |-> f[Ascending(I)[i]]]] :
            f \in [I -> ResponseObjects]} :
         I \in {J \in SUBSET (1..Len(ResponseKeys)) : Cardinality(J) <= MaxResponses}}

HappyInit ==
  /\ call \in {[op |-> "handleRequest", responses |-> t] : t \in ResponseTables}
  /\ loop = findMatchingRuleStart
  /\ ret = <<>>
  /\ ServerStopped

\* handleRequest for GET /a/b on a route with the responses, with no scenario
\* selected and no proxy target: it returns without an await
HappyApply ==
  /\ call.op = "handleRequest"
  /\ ret = <<>>
  /\ \E env \in Envs :
       ret' = <<handleRequestEntry(
                  [method |-> "GET", path |-> PathContractsId, headers |-> <<>>,
                   query |-> <<>>, body |-> Undef],
                  <<[method |-> "GET", path |-> PathContractsId,
                     responses |-> call.responses]>>,
                  1, env).rec>>
  /\ UNCHANGED <<call, loop>>
  /\ UNCHANGED serverVars

HappyNext == HappyApply

SpecHappy == HappyInit /\ [][HappyNext]_vars

HappyReturned == call.op = "handleRequest" /\ ret # <<>>

\* the three-digit keys of the responses, as numbers
Declared(responses) ==
  {DigitsValue(responses[i].k) : i \in {j \in 1..Len(responses) :
     Len(responses[j].k) = 3 /\ \A c \in 1..3 : responses[j].k[c] \in
       {"0", "1", "2", "3", "4", "5", "6", "7", "8", "9"}}}

LowestHappy(responses) ==
  LET ok == {c \in Declared(responses) : c >= 200 /\ c <= 299}
  IN IF ok # {} THEN CHOOSE c \in ok : \A d \in ok : c <= d
     ELSE CHOOSE c \in Declared(responses) : \A d \in Declared(responses) : c <= d

\* the example the response declared for the status gives, Undef if none
DeclaredExample(responses, status) ==
  LET at == CHOOSE i \in 1..Len(responses) : DigitsValue(responses[i].k) = status
                                              /\ Len(responses[i].k) = 3
  IN IF responses[at].v.content = <<>> THEN Undef
     ELSE responses[at].v.content[1][1].v.example

\* C14: with no rule match, no auto-gen name and no proxy, a routed request is
\* answered with the lowest 2xx status its route declares, or with the lowest
\* declared status when it declares no 2xx, and with that response's example
\* as body whenever it has one.
C14_HappyPathLowestStatusAndExample ==
  (HappyReturned /\ Declared(call.responses) # {}) =>
     /\ ret[1].pc = "done"
     /\ ret[1].reply.sent
     /\ ret[1].reply.status = LowestHappy(call.responses)
     /\ DeclaredExample(call.responses, LowestHappy(call.responses)) # Undef =>
          ret[1].reply.body = DeclaredExample(call.responses, LowestHappy(call.responses))


----------------------------------------------------------------------------
(* renderTemplates on bounded values *)

TemplateChars == {"\\", "{", "}", "a"}

\* Every string of at most MaxTemplateLen of the characters
TemplateStrings == UNION {[1..n -> TemplateChars] : n \in 0..MaxTemplateLen}

\* Leaves of the rendered structures: helpers, escapes, malformed templates,
\* plain text and a value that is no string
TemplateLeaves ==
  {Str(Open2 \o HelperIncrement \o Close2),
   Str(<<"i", "d", "-">> \o Open2 \o HelperUuid \o Close2),
   Str(Open2 \o HelperNow \o Close2 \o Open2 \o HelperIncrement \o Close2),
   Str(<<"\\">> \o Open2 \o HelperNow \o Close2),
   Str(Open2 \o <<" ">> \o HelperNow \o <<" ">> \o Close2),
   Str(Open2 \o <<"n", "o", "p", "e">> \o Close2),
   Str(<<"a">> \o Open2),
   Str(<<"a">>),
   Str(TemplateIncrement \o <<"-">> \o TemplateIncrement),
   Num(1)}

TemplateValues ==
  {Str(s) : s \in TemplateStrings}
  \cup TemplateLeaves
  \cup {List(<<a, b>>) : a, b \in TemplateLeaves}
  \cup {Obj(<<[k |-> "id", v |-> a], [k |-> "items", v |-> List(<<b>>)]>>) :
          a, b \in TemplateLeaves}

\* The locals of the handleRequest call that matched the rule of GET /a/*
MatchedRequest ==
  matchRules(emitResolution(resolveScenario(enterRequest(
    [method |-> "GET", path |-> PathContractsId,
     headers |-> ScenarioHeader(Str(NameOutage)), query |-> <<>>, body |-> Undef],
    routeFor("GET", PathContractsId), 1))))

\* templateRuntimes with the counter of the matched scenario at k
RuntimesAt(k) == [n \in {NameOutage} |-> [counter |-> k, issued |-> <<>>]]

RenderInit ==
  /\ call \in {[op |-> "renderTemplates", value |-> v, counter |-> k] :
                 v \in TemplateValues, k \in {0, 2}}
              \cup {[op |-> "respondMock", value |-> v, counter |-> k] :
                      v \in TemplateValues \ {Str(s) : s \in TemplateStrings},
                      k \in {0, 2}}
  /\ loop = findMatchingRuleStart
  /\ ret = <<>>
  /\ ServerStopped

RenderApply ==
  /\ call.op = "renderTemplates"
  /\ ret = <<>>
  /\ \E env \in Envs :
       ret' = <<renderTemplates(call.value, [counter |-> call.counter, issued |-> <<>>], env)>>
  /\ UNCHANGED <<call, loop>>
  /\ UNCHANGED serverVars

\* The resolved body of the matched rule is rendered and sent; the runtime
\* of the scenario stays in templateRuntimes as the render left it
SendApply ==
  /\ call.op = "respondMock"
  /\ ret = <<>>
  /\ \E env \in Envs :
       /\ ret' = <<respondMock(MatchedRequest, call.value, RuntimesAt(call.counter), env).rec>>
       /\ templateRuntimes' =
            putTemplateRuntime(
              RuntimesAt(call.counter), NameOutage,
              respondMock(MatchedRequest, call.value, RuntimesAt(call.counter), env).used[1])
  /\ UNCHANGED <<call, loop>>
  /\ UNCHANGED <<proxyBaseUrl, currentScenario, requests, started, completed, incrementLog>>

RenderNext == RenderApply \/ SendApply

SpecRender == RenderInit /\ [][RenderNext]_vars

RenderReturned == call.op = "renderTemplates" /\ ret # <<>>

\* where the escaped template that starts at i ends: the position of the
\* second brace of the first "}}" after "\{{", with no brace in between
EscapeEnds(s, i) ==
  {j \in (i + 4)..Len(s) :
     /\ s[j - 1] = "}" /\ s[j] = "}"
     /\ \A m \in (i + 3)..(j - 2) : s[m] \notin {"{", "}"}}

EscapeAt(s, i) ==
  /\ i + 2 <= Len(s)
  /\ s[i] = "\\" /\ s[i + 1] = "{" /\ s[i + 2] = "{"

\* from position i on, every brace of s belongs to a \{{x}} with x free of braces
RECURSIVE EscapedOnly(_, _)
EscapedOnly(s, i) ==
  IF i > Len(s) THEN TRUE
  ELSE IF EscapeAt(s, i)
  THEN EscapeEnds(s, i) # {} /\ EscapedOnly(s, (CHOOSE j \in EscapeEnds(s, i) : TRUE) + 1)
  ELSE s[i] \notin {"{", "}"} /\ EscapedOnly(s, i + 1)

\* s from position i on with every \{{x}} replaced by {{x}}
RECURSIVE Unescaped(_, _)
Unescaped(s, i) ==
  IF i > Len(s) THEN <<>>
  ELSE IF EscapeAt(s, i)
  THEN SubSeq(s, i + 1, CHOOSE j \in EscapeEnds(s, i) : TRUE)
       \o Unescaped(s, (CHOOSE j \in EscapeEnds(s, i) : TRUE) + 1)
  ELSE <<s[i]>> \o Unescaped(s, i + 1)

\* C15: for a string whose only braces are those of escaped templates \{{x}},
\* rendering raises no error and returns the string with each \{{x}} replaced
\* by {{x}}; no helper is invoked and the increment counter is unchanged.
C15_EscapedBracesRenderLiteral ==
  (RenderReturned /\ call.value.t = "string" /\ EscapedOnly(call.value.s, 1)) =>
     /\ ~ret[1].threw
     /\ ret[1].value = Str(Unescaped(call.value.s, 1))
     /\ ret[1].helpers = <<>>
     /\ ret[1].runtime = [counter |-> call.counter, issued |-> <<>>]

\* \{{a}} was rendered to {{a}} with the counter left at 2
C15_Witness ==
  /\ RenderReturned
  /\ call.value = Str(<<"\\", "{", "{", "a", "}", "}">>)
  /\ call.counter = 2
  /\ ret[1].value = Str(<<"{", "{", "a", "}", "}">>)
  /\ ret[1].runtime.counter = 2


\* a string of the structure for which the parser reports an error
RECURSIVE HasParserError(_)
HasParserError(value) ==
  IF value.t = "string" THEN Len(parseTemplateString(value.s).errors) > 0
  ELSE IF value.t = "array"
  THEN \E i \in 1..Len(value.l) : HasParserError(value.l[i])
  ELSE IF value.t = "object"
  THEN \E i \in 1..Len(value.e) : HasParserError(value.e[i].v)
  ELSE FALSE

MockResponded == call.op = "respondMock" /\ ret # <<>>

\* C16: whenever a string anywhere in the rendered structure has a parser
\* error, renderTemplates raises TemplateRenderError with the parser's errors
\* and returns no value; the mock response for such a body is never sent: the
\* handler ends with the error and nothing is written to the reply.
C16_RenderErrorAbortsWholeRender ==
  /\ (RenderReturned /\ HasParserError(call.value)) =>
       /\ ret[1].threw
       /\ ret[1].value = Undef
       /\ ret[1].errors # <<>>
  /\ (MockResponded /\ HasParserError(call.value)) =>
       /\ ret[1].thrown = <<"TemplateRenderError">>
       /\ ~ret[1].reply.sent
       /\ ret[1].reply.body = Undef

\* the first element of a list was rendered (the counter moved to 1) before
\* the second one raised
C16_Witness ==
  /\ call.value = List(<<Str(Open2 \o HelperIncrement \o Close2), Str(<<"a">> \o Open2)>>)
  /\ call.counter = 0
  /\ RenderReturned
  /\ ret[1].threw
  /\ ret[1].runtime.counter = 1


IsHelperToken(token) == token.type = "helper"

\* the helper names of the tokens of a string, in the order of the tokens
TokenNames(tokens) ==
  [i \in 1..Len(SelectSeq(tokens, IsHelperToken)) |->
     SelectSeq(tokens, IsHelperToken)[i].name]

\* The helper names a value uses, one per use, in the order of traversal:
\* a string left to right, a list by index, an object by entry
RECURSIVE UsedHelpers(_)
UsedHelpers(value) ==
  IF value.t = "string" THEN TokenNames(parseTemplateString(value.s).tokens)
  ELSE IF value.t = "array"
  THEN Flat([i \in 1..Len(value.l) |-> UsedHelpers(value.l[i])])
  ELSE IF value.t = "object"
  THEN Flat([i \in 1..Len(value.e) |-> UsedHelpers(value.e[i].v)])
  ELSE <<>>

FirstUse(names, name) == CHOOSE i \in 1..Len(names) :
                           names[i] = name /\ \A j \in 1..(i - 1) : names[j] # name

\* C33: a render that returns lists each helper name used exactly once, in
\* the order of first use; every use of increment advances the counter, so
\* two uses in one string advance it twice while the list holds the name once
C33_HelpersOnceInFirstUseOrder ==
  (RenderReturned /\ ~ret[1].threw) =>
    LET names == UsedHelpers(call.value)
        helpers == ret[1].helpers
    IN /\ \A i, j \in 1..Len(helpers) : i # j => helpers[i] # helpers[j]
       /\ {helpers[i] : i \in 1..Len(helpers)} = {names[i] : i \in 1..Len(names)}
       /\ \A i, j \in 1..Len(helpers) :
            i < j => FirstUse(names, helpers[i]) < FirstUse(names, helpers[j])
       /\ ret[1].runtime.counter
            = call.counter + Cardinality({i \in 1..Len(names) : names[i] = HelperIncrement})

\* {{increment}}-{{increment}} rendered from counter 0: the counter is at 2,
\* the text is 1-2 and the helper list holds increment once
C33_Witness ==
  /\ RenderReturned
  /\ call.value = Str(TemplateIncrement \o <<"-">> \o TemplateIncrement)
  /\ call.counter = 0
  /\ ~ret[1].threw
  /\ ret[1].value = Str(<<"1", "-", "2">>)
  /\ ret[1].helpers = <<HelperIncrement>>
  /\ ret[1].runtime.counter = 2

\* C35: a render that raises TemplateRenderError leaves the increment
\* counter of the scenario as it was before the render, both for the call of
\* renderTemplates and for the request handler that made it
C35_FailedRenderKeepsCounter ==
  /\ (RenderReturned /\ ret[1].threw) => ret[1].runtime.counter = call.counter
  /\ (MockResponded /\ ret[1].thrown = <<"TemplateRenderError">>) =>
       templateRuntimes[NameOutage].counter = call.counter

----------------------------------------------------------------------------
(* Body files on bounded contents *)

\* JSON.parse of a text over TemplateChars: only {} is a JSON document
JsonOfBraces(text) == IF text = <<"{", "}">> THEN <<Obj(<<>>)>> ELSE <<>>

Quoted(s) == <<"\"">> \o s \o <<"\"">>

\* JSON documents with their parsed value: a list and an object with
\* templates, a templated string, a string with a malformed template, a
\* number, null
JsonFiles ==
  {[text |-> <<"[">> \o Quoted(TemplateIncrement) \o <<",">> \o Quoted(<<"a">>) \o <<"]">>,
    json |-> <<List(<<Str(TemplateIncrement), Str(<<"a">>)>>)>>],
   [text |-> <<"{">> \o Quoted(<<"i", "d">>) \o <<":">>
               \o Quoted(<<"i", "d", "-">> \o Open2 \o HelperUuid \o Close2) \o <<"}">>,
    json |-> <<Obj(<<[k |-> "id", v |-> Str(<<"i", "d", "-">> \o Open2 \o HelperUuid \o Close2)]>>)>>],
   [text |-> Quoted(Open2 \o HelperNow \o Close2),
    json |-> <<Str(Open2 \o HelperNow \o Close2)>>],
   [text |-> <<"[">> \o Quoted(<<"a">> \o Open2) \o <<"]">>,
    json |-> <<List(<<Str(<<"a">> \o Open2)>>)>>],
   [text |-> <<"1">>, json |-> <<Num(1)>>],
   [text |-> <<"n", "u", "l", "l">>, json |-> <<Null>>]}

\* The contents of the file a rule's bodyFile names
FileContents ==
  JsonFiles
  \cup {[text |-> s, json |-> JsonOfBraces(s)] : s \in TemplateStrings}
  \cup {[text |-> <<"h", "i", " ">> \o Open2 \o HelperIncrement \o Close2, json |-> <<>>]}

\* The locals of the handleRequest call that matched the rule with bodyFile
MatchedFileRequest ==
  matchRules(emitResolution(resolveScenario(enterRequest(
    [method |-> "GET", path |-> PathContractsId,
     headers |-> ScenarioHeader(Str(NameFiles)), query |-> <<>>, body |-> Undef],
    routeFor("GET", PathContractsId), 1))))

BodyFileInit ==
  /\ call \in {[op |-> "readBodyFile", file |-> f, counter |-> k] :
                 f \in FileContents, k \in {0, 2}}
  /\ loop = findMatchingRuleStart
  /\ ret = <<>>
  /\ ServerStopped

\* the file was read: the body is resolved, rendered and sent
BodyFileApply ==
  /\ call.op = "readBodyFile"
  /\ ret = <<>>
  /\ \E env \in Envs :
       ret' = <<respondMock(MatchedFileRequest, readBodyFile(call.file),
                            [n \in {NameFiles} |-> [counter |-> call.counter, issued |-> <<>>]],
                            env).rec>>
  /\ UNCHANGED <<call, loop>>
  /\ UNCHANGED serverVars

BodyFileNext == BodyFileApply

SpecBodyFile == BodyFileInit /\ [][BodyFileNext]_vars

FileAnswered == call.op = "readBodyFile" /\ ret # <<>>

\* the value with its templates resolved from the counter of the call
Resolved(value) ==
  renderTemplates(value, [counter |-> call.counter, issued |-> <<>>],
                  CHOOSE env \in Envs : TRUE).value

\* the text holds no template syntax: no brace pair, escaped or not
PlainText(text) ==
  \A i \in 1..(Len(text) - 1) :
    ~(text[i] = "{" /\ text[i + 1] = "{") /\ ~(text[i] = "}" /\ text[i + 1] = "}")

----------------------------------------------------------------------------
(* Startup on bounded scenario directories *)

\* A rule of a scenario file: GET /b with the given id (<<>> for none),
\* status and body (Undef for none)
FileRule(id, status, body) ==
  Obj((IF id = <<>> THEN <<>> ELSE <<[k |-> "id", v |-> id[1]]>>)
      \o <<[k |-> "match", v |-> Obj(<<[k |-> "path", v |-> Str(PathB)],
                                       [k |-> "method", v |-> Str(<<"G", "E", "T">>)]>>)],
           [k |-> "respond",
            v |-> Obj(<<[k |-> "status", v |-> status]>>
                      \o (IF body = Undef THEN <<>> ELSE <<[k |-> "body", v |-> body]>>))]>>)

FileScenario(name, rules) ==
  Obj(<<[k |-> "scenario", v |-> name], [k |-> "rules", v |-> List(rules)]>>)

\* What YAML.parseDocument makes of a file
Doc(errors, warnings, contents) ==
  [errors |-> errors, warnings |-> warnings, contents |-> contents]

NameX == Str(<<"x">>)
IdR1 == <<Str(<<"r", "1">>)>>
IdR2 == <<Str(<<"r", "2">>)>>
BodyOk == Str(<<"o", "k">>)
BodyUnknownHelper == Obj(<<[k |-> "msg", v |-> Str(Open2 \o <<"n", "o", "p", "e">> \o Close2)]>>)
BodyCounted == Str(TemplateIncrement)

\* The contents of the scenario files: well-formed scenarios, two of them
\* with the same name; bodies with a well-formed and with a malformed
\* template; parser warnings; a syntax error; an empty document; a reserved
\* name; repeated and empty rule ids; a null rule; a status out of range; a
\* blank scenario name
Documents ==
  {Doc(<<>>, <<>>, FileScenario(NameX, <<FileRule(IdR1, Num(200), BodyOk)>>)),
   Doc(<<>>, <<>>, FileScenario(NameX, <<FileRule(<<>>, Num(204), Undef)>>)),
   Doc(<<>>, <<>>, FileScenario(Str(<<"y">>), <<FileRule(IdR1, Num(201), BodyCounted),
                                                FileRule(IdR2, Num(202), Undef),
                                                FileRule(<<>>, Num(203), Undef),
                                                FileRule(<<>>, Num(204), Undef)>>)),
   Doc(<<>>, <<>>, FileScenario(Str(<<"t">>), <<FileRule(IdR1, Num(200), BodyUnknownHelper)>>)),
   Doc(<<>>, <<"Unresolved tag">>,
       FileScenario(Str(<<"w">>), <<FileRule(IdR1, Num(200), BodyOk)>>)),
   Doc(<<>>, <<"Unresolved tag">>,
       FileScenario(NameX, <<FileRule(IdR2, Num(200), Undef)>>)),
   Doc(<<"Bad indentation">>, <<>>, Null),
   Doc(<<>>, <<>>, Null),
   Doc(<<>>, <<>>, FileScenario(Str(AutoGen500), <<FileRule(IdR1, Num(200), BodyOk)>>)),
   Doc(<<>>, <<>>, FileScenario(Str(<<"d">>), <<FileRule(IdR1, Num(200), BodyOk),
                                                FileRule(IdR2, Num(200), Undef),
                                                FileRule(IdR1, Num(200), Undef)>>)),
   Doc(<<>>, <<>>, FileScenario(Str(<<"e">>), <<FileRule(<<Str(<<>>)>>, Num(200), Undef),
                                                FileRule(<<Str(<<>>)>>, Num(200), Undef)>>)),
   Doc(<<>>, <<>>, FileScenario(Str(<<"n">>), <<Null>>)),
   Doc(<<>>, <<>>, FileScenario(Str(<<"b">>), <<FileRule(IdR1, Num(99), BodyOk)>>)),
   Doc(<<>>, <<>>, FileScenario(Str(<<"h">>), <<FileRule(IdR1, Num(100), Undef),
                                                FileRule(IdR2, Num(599), Undef)>>)),
   Doc(<<>>, <<>>, FileScenario(Str(<<"h">>), <<FileRule(IdR1, Num(200), Undef),
                                                FileRule(IdR2, Num(600), Undef)>>)),
   Doc(<<>>, <<>>, FileScenario(Str(<<"f">>), <<FileRule(IdR1, Tenths(200, 5), Undef)>>)),
   Doc(<<>>, <<>>, FileScenario(Str(<<"f">>), <<FileRule(IdR1, Tenths(599, 5), Undef)>>)),
   Doc(<<>>, <<>>, FileScenario(Str(<<"f">>), <<FileRule(IdR1, NaN, Undef)>>)),
   Doc(<<>>, <<>>, FileScenario(Str(<<" ">>), <<FileRule(IdR1, Num(200), BodyOk)>>))}

\* the paths of the .yaml files below the source directory, sorted
FilePaths == <<"a.yaml", "b.yaml", "c.yaml">>

\* The sorted scenario files of a source directory
ScenarioFiles ==
  UNION {{[i \in 1..n |-> [path |-> FilePaths[i], doc |-> docs[i]]] :
            docs \in [1..n -> Documents]} : n \in 0..MaxFiles}

\* The options of the run action: --spec (and whether the document loads),
\* --proxy, --source and the files found there
RunOptions ==
  {[op |-> "run", spec |-> o[1], specLoads |-> o[2], proxy |-> o[3],
    source |-> <<"scenarios">>, files |-> files] :
     o \in {<<<<"openapi.yaml">>, TRUE, <<>>>>,
            <<<<"openapi.yaml">>, FALSE, <<>>>>,
            <<<<>>, FALSE, <<"http://upstream">>>>,
            <<<<>>, FALSE, <<>>>>},
     files \in ScenarioFiles}
  \cup {[op |-> "run", spec |-> <<"openapi.yaml">>, specLoads |-> TRUE, proxy |-> <<>>,
         source |-> <<>>, files |-> <<>>]}

LoadInit ==
  /\ call \in RunOptions
  /\ loop = RunStart
  /\ ret = <<>>
  /\ ServerStopped

\* the run action starts: options, OpenAPI document, entry of loadScenarios
RunBegin ==
  /\ loop.pc = "start"
  /\ loop' = runEntry(loop, call)
  /\ UNCHANGED <<call, ret>>
  /\ UNCHANGED serverVars

\* loadScenarios validates the next file
ValidateFile ==
  /\ loop.pc = "validating"
  /\ loop.index <= Len(call.files)
  /\ loop' = validateFileStep(loop, call.files[loop.index], call.source[1])
  /\ UNCHANGED <<call, ret>>
  /\ UNCHANGED serverVars

\* loadScenarios after the last file: it returns the scenarios or throws
FinishLoad ==
  /\ loop.pc = "validating"
  /\ loop.index > Len(call.files)
  /\ loop' = loadScenariosExit(loop, withSetErrors(loop, call.source[1]))
  /\ UNCHANGED <<call, ret>>
  /\ UNCHANGED serverVars

\* the run action creates the server and waits for it to listen
StartServer ==
  /\ loop.pc = "loaded"
  /\ \E listens \in BOOLEAN : loop' = startServer(loop, call, listens)
  /\ proxyBaseUrl' = call.proxy
  /\ UNCHANGED <<call, ret>>
  /\ UNCHANGED <<currentScenario, templateRuntimes, requests, started, completed,
                 incrementLog>>

\* respond of a loaded rule as the request handler reads it
loadedRespond(respond) ==
  [status |-> <<Prop(respond, "status").n>>,
   body |-> IF Prop(respond, "body") = Undef THEN <<>> ELSE <<Prop(respond, "body")>>,
   bodyFile |-> IF Prop(respond, "bodyFile") = Undef THEN <<>>
                ELSE <<Prop(respond, "bodyFile").s>>,
   headers |-> IF Prop(respond, "headers") = Undef THEN <<>>
               ELSE <<[i \in 1..Len(Prop(respond, "headers").e) |->
                         [k |-> Prop(respond, "headers").e[i].k,
                          v |-> Prop(respond, "headers").e[i].v.s]]>>,
   delayMs |-> IF Prop(respond, "delayMs") = Undef THEN <<>>
               ELSE <<Prop(respond, "delayMs").n>>,
   timeout |-> IF Prop(respond, "timeout") = Undef THEN <<>>
               ELSE <<Prop(respond, "timeout").n>>]

\* The locals of a handleRequest call that matched rule number index of a
\* loaded scenario
matchedLoaded(scenario, index) ==
  [MatchedRequest EXCEPT
     !.loadedScenario = <<[scenario |-> scenarioNameOf(scenario), rules |-> <<>>,
                           sourceDir |-> scenario.sourceDir]>>,
     !.match = <<[@[1] EXCEPT
                    !.ruleIndex = index - 1,
                    !.rule = [id |-> ruleIdOf(Prop(scenario.data, "rules").l[index]),
                              match |-> @.match,
                              respond |-> loadedRespond(
                                Prop(Prop(scenario.data, "rules").l[index], "respond"))]]>>]

\* a request matches a rule with a body of a loaded scenario and is answered
ServeRequest ==
  /\ loop.pc = "serving"
  /\ ret = <<>>
  /\ \E i \in 1..Len(loop.scenarios) :
       \E j \in 1..Len(Prop(loop.scenarios[i].data, "rules").l) :
         \E env \in Envs :
           /\ Prop(Prop(Prop(loop.scenarios[i].data, "rules").l[j], "respond"), "body") # Undef
           /\ ret' = <<respondMock(
                         matchedLoaded(loop.scenarios[i], j),
                         Prop(Prop(Prop(loop.scenarios[i].data, "rules").l[j], "respond"),
                              "body"),
                         templateRuntimes, env).rec>>
  /\ UNCHANGED <<call, loop>>
  /\ UNCHANGED serverVars

LoadNext == RunBegin \/ ValidateFile \/ FinishLoad \/ StartServer \/ ServeRequest

SpecLoad == LoadInit /\ [][LoadNext]_vars

\* the request answered against the loaded scenarios
Served == call.op = "run" /\ ret # <<>>

\* a rule of the document carries a body in which a string has a parser error
MalformedBodyIn(contents) ==
  /\ isPlainObject(contents)
  /\ Prop(contents, "rules").t = "array"
  /\ \E i \in 1..Len(Prop(contents, "rules").l) :
       LET rule == Prop(contents, "rules").l[i]
       IN /\ isPlainObject(rule)
          /\ isPlainObject(Prop(rule, "respond"))
          /\ HasParserError(Prop(Prop(rule, "respond"), "body"))

\* C17: a file in which the body of a rule has a template error gets an
\* error-severity entry from validateScenarioFile, and a request answered
\* from a rule of a scenario set that loadScenarios returned never ends in
\* a rendering error.
C17_TemplateErrorsCaughtAtLoad ==
  /\ (loop.pc = "validating" /\ loop.index > 1 /\ loop.result # <<>>
      /\ MalformedBodyIn(call.files[loop.index - 1].doc.contents)) =>
        HasSeverity(loop.result[1].errors, "error")
  /\ Served => ret[1].thrown = <<>>


\* validateScenarioFile returned a result for the file before loop.index
Validated == call.op = "run" /\ loop.result # <<>>

\* C18: the result of validateScenarioFile carries a scenario exactly when it
\* holds no error-severity entry; a result with a scenario holds no warning,
\* and a result without a scenario holds at least one entry.
C18_ScenarioOrErrors ==
  Validated =>
    /\ loop.result[1].scenario # <<>> <=> ~HasSeverity(loop.result[1].errors, "error")
    /\ loop.result[1].scenario # <<>> => ~HasSeverity(loop.result[1].errors, "warning")
    /\ loop.result[1].scenario = <<>> => Len(loop.result[1].errors) > 0


\* what validateScenarioFile makes of file number i of the directory
FileResult(i) == validateScenarioFile(call.files[i].path, call.files[i].doc)

YieldsError(i) == ~FileResult(i).threw /\ HasSeverity(FileResult(i).errors, "error")

\* a valid file: validation returned its scenario
ValidFile(i) == ~FileResult(i).threw /\ FileResult(i).scenario # <<>>

SharedName ==
  \E i, j \in 1..Len(call.files) :
    /\ i < j
    /\ ValidFile(i) /\ ValidFile(j)
    /\ Prop(FileResult(i).scenario[1], "scenario")
         = Prop(FileResult(j).scenario[1], "scenario")

Emitted(name) == \E i \in 1..Len(loop.events) : loop.events[i].event = name

\* C19: when a scenario file of the source directory yields an
\* error-severity entry, or two valid files declare the same scenario name,
\* loadScenarios does not return, the server never listens and never emits
\* server-ready, and the run action ends with a startup-failed event and
\* exit code 1.
C19_InvalidScenariosAbortStartup ==
  (call.op = "run" /\ ((\E i \in 1..Len(call.files) : YieldsError(i)) \/ SharedName)) =>
     /\ ~loop.listening
     /\ ~Emitted("server-ready")
     /\ loop.pc \notin {"loaded", "serving"}
     /\ loop.pc = "exited" => (Emitted("startup-failed") /\ loop.exitCode = 1)

\* loadScenarios returned loop.scenarios to the run action
Loaded == call.op = "run" /\ (loop.pc \in {"loaded", "serving"} \/ Emitted("startup"))

RulesOf(scenario) == Prop(scenario.data, "rules").l

\* C20: in the set loadScenarios returns, no two scenarios have the same
\* name, no name starts with auto-gen-, and inside a scenario no two rules
\* that carry an id carry the same one.
C20_LoadedNamesAndIdsDistinct ==
  Loaded =>
    /\ \A i, j \in 1..Len(loop.scenarios) :
         i < j => Prop(loop.scenarios[i].data, "scenario")
                    # Prop(loop.scenarios[j].data, "scenario")
    /\ \A i \in 1..Len(loop.scenarios) :
         /\ ~StartsWith(Prop(loop.scenarios[i].data, "scenario").s, <<"a", "u", "t", "o", "-", "g", "e", "n", "-">>)
         /\ \A a, b \in 1..Len(RulesOf(loop.scenarios[i])) :
              (a < b /\ Prop(RulesOf(loop.scenarios[i])[a], "id") # Undef
                     /\ Prop(RulesOf(loop.scenarios[i])[b], "id") # Undef)
                => Prop(RulesOf(loop.scenarios[i])[a], "id")
                     # Prop(RulesOf(loop.scenarios[i])[b], "id")

\* two files were loaded, the second with two rules that carry different ids
\* and two rules without id, and the server listens
C20_Witness ==
  /\ Loaded
  /\ loop.listening
  /\ Len(loop.scenarios) = 2
  /\ Prop(loop.scenarios[1].data, "scenario") = NameX
  /\ Prop(loop.scenarios[2].data, "scenario") = Str(<<"y">>)
  /\ Len(RulesOf(loop.scenarios[2])) = 4
  /\ Prop(RulesOf(loop.scenarios[2])[3], "id") = Undef


\* the scenario validateScenarioFile returned for the file before loop.index
Accepted == Validated /\ loop.result[1].scenario # <<>>

StatusOf(rule) == Prop(Prop(rule, "respond"), "status")

\* C21: every rule of a scenario that validateScenarioFile returns has a
\* respond.status that is a whole number from 100 to 599.
C21_AcceptedStatusIsInteger ==
  Accepted =>
    \A i \in 1..Len(Prop(loop.result[1].scenario[1], "rules").l) :
      LET status == StatusOf(Prop(loop.result[1].scenario[1], "rules").l[i])
      IN /\ status.t = "number"
         /\ status.finite
         /\ status.tenths = 0
         /\ status.n >= 100 /\ status.n <= 599


----------------------------------------------------------------------------
(* ScenarioState under bounded sequences of set, get and arriving requests *)

MaxSets == 3

\* Variant: the name is stored as given, the empty string included
set_keepEmpty(next) == next

\* ScenarioState.set(next): this.currentScenario = next || undefined;
\* next is <<>> when the argument is missing
set(next) == IF next = <<>> \/ next[1] = <<>> THEN <<>> ELSE next

\* ScenarioState.get()
get == currentScenario

AutoGen42 == AUTO_GEN_PREFIX \o <<"4", "2">>

\* The arguments of set: missing, the empty string, names of loaded
\* scenarios, auto-gen names and a name that is not loaded
SetArguments ==
  {<<>>, <<<<>>>>, <<NameOutage>>, <<NameFiles>>, <<AutoGen503>>, <<AutoGen42>>, <<NameGhost>>}

\* loop is the sequence of the arguments of the set calls so far
StateInit ==
  /\ call = [op |-> "new"]
  /\ loop = <<>>
  /\ ret = <<>>
  /\ ServerStopped

\* scenarioState.set(next) runs and emits 'change' with the stored value
StateSet ==
  /\ Len(loop) < MaxSets
  /\ \E next \in SetArguments :
       /\ currentScenario' = set(next)
       /\ loop' = Append(loop, next)
       /\ ret' = <<[event |-> "change", value |-> set(next)]>>
  /\ call' = [op |-> "set"]
  /\ UNCHANGED <<proxyBaseUrl, templateRuntimes, requests, started, completed,
                 incrementLog>>

\* scenarioState.get() runs
StateGet ==
  /\ call' = [op |-> "get"]
  /\ ret' = <<get>>
  /\ UNCHANGED loop
  /\ UNCHANGED serverVars

\* a request arrives and handleRequest runs to its first await or its return
\* Requests whose scenario header is present with an empty value or with a
\* name
HeaderedInbound ==
  {[method |-> "GET", path |-> p, headers |-> ScenarioHeader(h), query |-> <<>>,
    body |-> Undef] :
     p \in {PathContractsId, PathB},
     h \in {Str(<<>>), Str(NameOutage), Str(AutoGen503), Str(AutoGen42),
            List(<<<<>>, NameOutage>>)}}

StateRequest ==
  /\ \E inbound \in Inbound \cup HeaderedInbound, env \in Envs :
       LET route == routeFor(inbound.method, inbound.path)
       IN /\ route # <<>> \/ isProxyEnabled
          /\ ret' = <<handleRequestEntry(inbound, route, 1, env).rec>>
  /\ call' = [op |-> "request"]
  /\ UNCHANGED loop
  /\ UNCHANGED serverVars

StateNext == StateSet \/ StateGet \/ StateRequest

SpecScenarioState == StateInit /\ [][StateNext]_vars

\* what the most recent set stores: none before the first set, none for a
\* missing or empty name
LastStored ==
  IF loop = <<>> \/ loop[Len(loop)] = <<>> \/ loop[Len(loop)] = <<<<>>>> THEN <<>>
  ELSE loop[Len(loop)]

LoadedAs(name) ==
  {<<Scenarios[i]>> : i \in {j \in 1..Len(Scenarios) : <<Scenarios[j].scenario>> = name}}

\* C24: get() returns what the most recent set() stored, none for an empty
\* or missing name; a request without scenario header whose handling starts
\* after that set is resolved against that name: it is its active and its
\* resolved scenario name, and the scenario looked up is the one of that name.
C24_LatestSetIsReadByGetAndRequests ==
  /\ currentScenario = LastStored
  /\ call.op = "get" => ret = <<LastStored>>
  /\ call.op = "request" /\ ret[1].headerScenario = <<>> =>
       /\ ret[1].activeScenario = LastStored
       /\ ret[1].scenarioName = LastStored
       /\ IF LoadedAs(LastStored) = {} THEN ret[1].loadedScenario = <<>>
          ELSE ret[1].loadedScenario \in LoadedAs(LastStored)

\* After set(outage), set('') and set(files), a request without scenario header
\* was resolved against files.
C24_Witness ==
  /\ call.op = "request"
  /\ loop = <<<<NameOutage>>, <<<<>>>>, <<NameFiles>>>>
  /\ ret[1].headerScenario = <<>>
  /\ ret[1].scenarioName = <<NameFiles>>
  /\ ret[1].loadedScenario # <<>>
  /\ ret[1].loadedScenario[1].scenario = NameFiles


\* the scenario-resolution event of the request that was handled
ResolutionEvents ==
  {ret[1].events[i] :
     i \in {j \in 1..Len(ret[1].events) : ret[1].events[j].event = "scenario-resolution"}}

RequestHandled == call.op = "request" /\ ret # <<>>

\* the x-mockhub-scenario header of the request, Undef when it is absent
SentHeader == Get(ret[1].request[1].headers, "x-mockhub-scenario")

\* the name the request was resolved with is a scenario name: not undefined
\* and not the empty string
NameUsed == ret[1].scenarioName # <<>> /\ ret[1].scenarioName[1] # <<>>

\* C38: result of the scenario-resolution event is 'header' exactly when
\* the header supplied the name used, 'active' exactly when the active slot
\* supplied it, and 'none' exactly when no name was used
C38_ResultNamesSourceOfScenario ==
  RequestHandled =>
    /\ Cardinality(ResolutionEvents) = 1
    /\ \A e \in ResolutionEvents :
         /\ e.result = "header" <=> (NameUsed /\ SentHeader # Undef)
         /\ e.result = "active" <=>
              (NameUsed /\ SentHeader = Undef /\ ret[1].scenarioName = currentScenario)
         /\ e.result = "none" <=> ~NameUsed

\* C37: every response the request handler sends has an integer status from
\* 100 to 599, whatever scenario name the header or the active slot gives
C37_SentStatusIsValidHttpStatus ==
  (RequestHandled /\ ret[1].reply.sent) => ret[1].reply.status \in 100..599

----------------------------------------------------------------------------
(* matchesPath on bounded patterns and request paths *)

PathChars == {"/", "a", "b", "*"}

\* Paths of at most MaxPathLen characters that start with '/'
Paths ==
  {p \in UNION {[1..n -> PathChars] : n \in 1..MaxPathLen} : p[1] = "/"}

Wildcards(p) == Cardinality({i \in 1..Len(p) : p[i] = "*"})

\* match.path values the scenario validator accepts: non-empty, starting with
\* '/', with at most one '*'
Patterns == {p \in Paths : Wildcards(p) <= 1}

PathInit ==
  /\ call \in {[op |-> "matchesPath", pattern |-> pt, actual |-> a] :
                 pt \in Patterns, a \in Paths}
  /\ loop = findMatchingRuleStart
  /\ ret = <<>>
  /\ ServerStopped

PathApply ==
  /\ call.op = "matchesPath"
  /\ ret = <<>>
  /\ ret' = <<[matched |-> matchesPath(call.pattern, call.actual)]>>
  /\ UNCHANGED <<call, loop>>
  /\ UNCHANGED serverVars

PathNext == PathApply

SpecPath == PathInit /\ [][PathNext]_vars

PathReturned == call.op = "matchesPath" /\ ret # <<>>

WildPrefix == Split(call.pattern, "*")[1]
WildSuffix == Split(call.pattern, "*")[2]

\* prefix is the whole path, or is followed by '/' in it
PathAligned(prefix, path) == path = prefix \/ StartsWith(path, prefix \o <<"/">>)

\* C4 as stated: for a pattern prefix*suffix a path matches if and only if the
\* prefix with one trailing slash stripped is a path-aligned leading segment of
\* the path and the suffix is a trailing substring of the path.
C4_WildcardIffPrefixAndSuffix ==
  (PathReturned /\ Wildcards(call.pattern) = 1) =>
    (ret[1].matched <=>
       /\ PathAligned(normalizePathSegment(WildPrefix), call.actual)
       /\ EndsWith(call.actual, WildSuffix))

\* C4 amended: for a pattern prefix*suffix a path matches if and only if it is
\* equal to the pattern, or the normalized prefix is a path-aligned leading
\* segment of the path with one trailing slash stripped and the suffix is a
\* trailing substring of that stripped path.
C4_WildcardOnNormalizedPath ==
  (PathReturned /\ Wildcards(call.pattern) = 1) =>
    (ret[1].matched <=>
       \/ call.actual = call.pattern
       \/ /\ PathAligned(normalizePathSegment(WildPrefix),
                         normalizePathSegment(call.actual))
          /\ EndsWith(normalizePathSegment(call.actual), WildSuffix))

\* A path other than the pattern matched a wildcard pattern that has both a
\* prefix below the root and a non-empty suffix.
C4_Witness ==
  /\ PathReturned
  /\ Wildcards(call.pattern) = 1
  /\ call.actual # call.pattern
  /\ Len(WildPrefix) > 1
  /\ WildSuffix # <<>>
  /\ ret[1].matched

----------------------------------------------------------------------------
(* evaluateRule and scoreMatchSpecificity on bounded rules and requests *)

Premium == <<"p", "r", "e", "m", "i", "u", "m">>
Basic == <<"b", "a", "s", "i", "c">>
Fast == <<"f", "a", "s", "t">>
True4 == <<"t", "r", "u", "e">>

\* match.headers: absent, {} and objects of one or two keys with string or
\* null values; the string 'undefined' is a value like any other
DeclaredHeaders ==
  {<<>>, <<<<>>>>,
   <<<<[k |-> "X-User-Type", v |-> Str(Premium)]>>>>,
   <<<<[k |-> "X-Mode", v |-> Null]>>>>,
   <<<<[k |-> "X-Mode", v |-> Null], [k |-> "X-User-Type", v |-> Str(Premium)]>>>>,
   <<<<[k |-> "X-User-Type", v |-> Str(Premium)], [k |-> "X-Mode", v |-> Str(Fast)]>>>>,
   <<<<[k |-> "X-Mode", v |-> Str(String(Undef))]>>>>,
   <<<<[k |-> "X-Mode", v |-> Str(String(Undef))],
       [k |-> "X-User-Type", v |-> Str(Premium)]>>>>}

\* match.query: absent or an object of one or two keys with string values
DeclaredQueries ==
  {<<>>,
   <<<<[k |-> "dryRun", v |-> True4]>>>>,
   <<<<[k |-> "dryRun", v |-> True4], [k |-> "page", v |-> <<"1">>]>>>>,
   <<<<[k |-> "page", v |-> <<"1">>], [k |-> "dryRun", v |-> True4]>>>>}

EvaluatedMatches ==
  {[path |-> p, method |-> m, headers |-> h, query |-> q] :
     p \in {PathContractsId, PatternWild}, m \in {"", "get", "POST"},
     h \in DeclaredHeaders, q \in DeclaredQueries}

\* request.headers as the framework gives them: lower-cased names, a string
\* or a list of strings per name
RequestHeaders ==
  {<<>>,
   <<[k |-> "x-user-type", v |-> Str(Premium)]>>,
   <<[k |-> "x-user-type", v |-> Str(Basic)], [k |-> "x-mode", v |-> Str(Fast)]>>,
   <<[k |-> "x-user-type", v |-> List(<<Basic, Premium>>)],
     [k |-> "x-mode", v |-> Str(<<"s", "l", "o", "w">>)]>>,
   <<[k |-> "x-mode", v |-> Str(String(Undef))]>>}

RequestQueries ==
  {<<>>,
   <<[k |-> "dryRun", v |-> Str(True4)]>>,
   <<[k |-> "dryRun", v |-> List(<<True4, <<"f", "a", "l", "s", "e">>>>)],
     [k |-> "page", v |-> Str(<<"1">>)]>>,
   <<[k |-> "dryRun", v |-> Str(True4)], [k |-> "page", v |-> Str(<<"1">>)]>>,
   <<[k |-> "dryRun", v |-> Str(True4)], [k |-> "page", v |-> Str(<<"2">>)]>>}

EvaluatedRequests ==
  {[method |-> m, path |-> p, headers |-> h, query |-> q] :
     m \in {"GET", "POST"}, p \in {PathContractsId, PathB},
     h \in RequestHeaders, q \in RequestQueries}

\* The matches that are scored: every accepted path of the bound, with and
\* without method, headers and query
ScoredMatches ==
  {[path |-> p, method |-> m, headers |-> h, query |-> q] :
     p \in Patterns, m \in {"", "get"},
     h \in {<<>>, <<<<>>>>,
            <<<<[k |-> "X-Mode", v |-> Null], [k |-> "X-User-Type", v |-> Str(Premium)]>>>>},
     q \in {<<>>, <<<<[k |-> "dryRun", v |-> True4]>>>>,
            <<<<[k |-> "dryRun", v |-> True4], [k |-> "page", v |-> <<"1">>]>>>>}}

RespondTeapot ==
  [status |-> <<418>>, body |-> <<BodyDown>>, bodyFile |-> <<>>, headers |-> <<>>,
   delayMs |-> <<7>>, timeout |-> <<>>]

EvaluateInit ==
  /\ call \in {[op |-> "evaluateRule", rule |-> RuleOf(m), request |-> rq] :
                 m \in EvaluatedMatches, rq \in EvaluatedRequests}
            \cup {[op |-> "findMatchingRule",
                   rule |-> [id |-> <<>>, match |-> m, respond |-> rs],
                   request |-> [method |-> "GET", path |-> p, headers |-> <<>>,
                                query |-> <<>>]] :
                    m \in ScoredMatches, rs \in {RespondStub, RespondTeapot},
                    p \in {PathContractsId, PathB}}
  /\ loop = findMatchingRuleStart
  /\ ret = <<>>
  /\ ServerStopped

\* evaluateRule(rule, request) returns
EvaluateApply ==
  /\ call.op = "evaluateRule"
  /\ ret = <<>>
  /\ ret' = <<evaluateRule(call.rule, call.request)>>
  /\ UNCHANGED <<call, loop>>
  /\ UNCHANGED serverVars

\* findMatchingRule scores the rule: const score = scoreMatchSpecificity(rule.match)
ScoreApply ==
  /\ call.op = "findMatchingRule"
  /\ ret = <<>>
  /\ ret' = <<[score |-> scoreMatchSpecificity(call.rule.match)]>>
  /\ UNCHANGED <<call, loop>>
  /\ UNCHANGED serverVars

EvaluateNext == EvaluateApply \/ ScoreApply

SpecEvaluate == EvaluateInit /\ [][EvaluateNext]_vars

Evaluated == call.op = "evaluateRule" /\ ret # <<>>

DeclaredOf(optional) == IF optional = <<>> THEN <<>> ELSE optional[1]

\* the request's value for a declared header name, names compared without case
Carried(name) ==
  {call.request.headers[i].v :
     i \in {j \in 1..Len(call.request.headers) :
              LowerTable[call.request.headers[j].k] = LowerTable[name]}}

\* a declared header is satisfied: present, and for a declared string equal to
\* the request's value or contained in its list
HeaderSatisfied(entry) ==
  \E value \in Carried(entry.k) :
    \/ entry.v = Null
    \/ value.t = "string" /\ value.s = entry.v.s
    \/ value.t = "array" /\ \E i \in 1..Len(value.l) : value.l[i] = entry.v.s

HeaderReasonOf(entry) ==
  IF Carried(entry.k) = {} THEN "header " \o entry.k \o " missing"
  ELSE "header " \o entry.k \o " mismatch"

QuerySatisfied(entry) ==
  /\ Get(call.request.query, entry.k).t \notin {"undefined", "null"}
  /\ String(Get(call.request.query, entry.k)) = entry.v

QueryReasonOf(entry) ==
  IF Get(call.request.query, entry.k).t \in {"undefined", "null"}
  THEN "query " \o entry.k \o " missing"
  ELSE "query " \o entry.k \o " mismatch"

FailingHeaders ==
  {i \in 1..Len(DeclaredOf(call.rule.match.headers)) :
     ~HeaderSatisfied(DeclaredOf(call.rule.match.headers)[i])}

FailingQueries ==
  {i \in 1..Len(DeclaredOf(call.rule.match.query)) :
     ~QuerySatisfied(DeclaredOf(call.rule.match.query)[i])}

\* the reason of the first failing predicate and of its first failing key
FirstFailure ==
  IF ~matchesPath(call.rule.match.path, call.request.path) THEN <<"path mismatch">>
  ELSE IF ~matchesMethod(call.rule.match, call.request.method) THEN <<"method mismatch">>
  ELSE IF FailingHeaders # {}
  THEN <<HeaderReasonOf(DeclaredOf(call.rule.match.headers)[SetMin(FailingHeaders)])>>
  ELSE IF FailingQueries # {}
  THEN <<QueryReasonOf(DeclaredOf(call.rule.match.query)[SetMin(FailingQueries)])>>
  ELSE <<>>

\* C25: evaluateRule checks path, method, headers and query in that order and
\* stops at the first predicate that fails: a result that is not matched
\* carries the reason of that predicate, for headers and query the reason of
\* its first failing declared key, and a matched result carries no reason.
C25_ReasonOfFirstFailingPredicate ==
  Evaluated =>
    IF ret[1].matched THEN ret[1].reason = <<>>
    ELSE ret[1].reason = FirstFailure

\* C26: a rule that declares headers matches a request only if every declared
\* header key is present in the request, names compared without case, with an
\* equal value or a list that contains the value for a declared string, and
\* with any value for a declared null.
C26_MatchedOnlyIfDeclaredHeadersPresent ==
  (Evaluated /\ ret[1].matched) => FailingHeaders = {}

Scored == call.op = "findMatchingRule" /\ ret # <<>>

\* the characters of the path that begin a non-empty segment
SegmentStarts(path) ==
  {i \in 1..Len(path) : path[i] # "/" /\ (i = 1 \/ path[i - 1] = "/")}

\* C27: the score of a rule's match is 10 if the path has no wildcard, else 1,
\* plus 1 per non-empty path segment, plus 5 if a method is declared, plus 2
\* per declared header key, plus 3 per declared query key; it is a function of
\* the match alone, whatever the request and the rule's respond part are.
C27_ScoreIsSumOfWeights ==
  Scored =>
    ret[1].score =
      (IF \E i \in 1..Len(call.rule.match.path) : call.rule.match.path[i] = "*"
       THEN 1 ELSE 10)
      + Cardinality(SegmentStarts(call.rule.match.path))
      + (IF call.rule.match.method # "" THEN 5 ELSE 0)
      + 2 * Len(DeclaredOf(call.rule.match.headers))
      + 3 * Len(DeclaredOf(call.rule.match.query))

\* /a/* with a method, two header keys and two query keys was scored 18 for
\* a rule that answers 418 and a request it does not match
C27_Witness ==
  /\ Scored
  /\ call.rule.match.path = PatternWild
  /\ call.rule.match.method = "get"
  /\ Len(DeclaredOf(call.rule.match.headers)) = 2
  /\ Len(DeclaredOf(call.rule.match.query)) = 2
  /\ call.rule.respond = RespondTeapot
  /\ call.request.path = PathB
  /\ ret[1].score = 18

----------------------------------------------------------------------------
(* parseTemplateString, one loop iteration per step *)

MaxPieces == 4

\* The inputs are made of at most MaxPieces of these pieces
ParserPieces ==
  {Open2, Close2, <<"\\">>, <<"{">>, <<"}">>, <<" ">>, <<"a">>,
   HelperNow, HelperUuid, HelperIncrement}

ParserInputs ==
  {Flat(pieces) : pieces \in UNION {[1..n -> ParserPieces] : n \in 0..MaxPieces}}

ParseInit ==
  /\ call \in {[op |-> "parseTemplateString", input |-> s] : s \in ParserInputs}
  /\ loop = parseStart
  /\ ret = <<>>
  /\ ServerStopped

\* while (index < input.length) { ... }: one iteration
ParseIterate ==
  /\ call.op = "parseTemplateString"
  /\ ret = <<>>
  /\ loop.index < Len(call.input) /\ ~loop.stopped
  /\ loop' = parseStep(loop, call.input)
  /\ UNCHANGED <<call, ret>>
  /\ UNCHANGED serverVars

\* flushBuffer(); return { tokens, errors, helpers, hasTemplates }
ParseReturn ==
  /\ call.op = "parseTemplateString"
  /\ ret = <<>>
  /\ ~(loop.index < Len(call.input) /\ ~loop.stopped)
  /\ ret' = <<[tokens |-> flushBuffer(loop).tokens, errors |-> flushBuffer(loop).errors,
               helpers |-> flushBuffer(loop).helpers,
               hasTemplates |-> flushBuffer(loop).hasTemplates]>>
  /\ UNCHANGED <<call, loop>>
  /\ UNCHANGED serverVars

ParseNext == ParseIterate \/ ParseReturn

SpecParse == ParseInit /\ [][ParseNext]_vars

Scanning == call.op = "parseTemplateString" /\ ret = <<>> /\ ~loop.stopped

\* the two characters at the scan position
Ahead == SubSeq(call.input, loop.index + 1,
                IF loop.index + 2 > Len(call.input) THEN Len(call.input) ELSE loop.index + 2)

\* the zero-based positions of the "}}" at or after the content's start
ClosesAhead ==
  {j \in (loop.index + 2)..(Len(call.input) - 2) :
     call.input[j + 1] = "}" /\ call.input[j + 2] = "}"}

ContentAhead == SubSeq(call.input, loop.index + 3, SetMin(ClosesAhead))

Contains(s, pair) == \E i \in 1..(Len(s) - 1) : <<s[i], s[i + 1]>> = pair

\* the class of a template's content, by the first rule that applies
ClassOf(content) ==
  IF content = <<>> THEN "malformed"
  ELSE IF Contains(content, Open2) THEN "nested-helper"
  ELSE IF \E i \in 1..Len(content) : content[i] = " " THEN "arguments-not-allowed"
  ELSE IF content \in {HelperUuid, HelperNow, HelperIncrement} THEN "helper"
  ELSE IF \E h \in {HelperUuid, HelperNow, HelperIncrement} :
            Len(content) > Len(h) /\ SubSeq(content, 1, Len(h)) = h
  THEN "arguments-not-allowed"
  ELSE "unknown-helper"

\* the tokens once the text read so far is pushed
TokensWithText ==
  IF loop.buffer = <<>> THEN loop.tokens
  ELSE Append(loop.tokens, [type |-> "text", value |-> loop.buffer])

\* C28: the iteration that meets an unescaped '{{' classifies it by the first
\* rule that applies: no closing '}}' is malformed and ends the scan, with the
\* result holding no further token or error; empty content is malformed,
\* content with '{{' nested-helper, content with whitespace
\* arguments-not-allowed, a helper name one helper token and no error,
\* content starting with a helper name arguments-not-allowed, anything else
\* unknown-helper. The iteration that meets a bare '}}' records
\* unexpected-close and the scan goes on after it.
C28_OpenBraceClassifiedInOrder ==
  [][/\ (Scanning /\ Ahead = Open2 /\ ClosesAhead = {}) =>
          /\ loop'.stopped
          /\ loop'.tokens = TokensWithText
          /\ loop'.errors = Append(loop.errors, [code |-> "malformed", index |-> loop.index])
     /\ (Scanning /\ Ahead = Open2 /\ ClosesAhead # {}) =>
          /\ ~loop'.stopped
          /\ loop'.index = SetMin(ClosesAhead) + 2
          /\ IF ClassOf(ContentAhead) = "helper"
             THEN /\ loop'.tokens = Append(TokensWithText,
                                           [type |-> "helper", name |-> ContentAhead])
                  /\ loop'.errors = loop.errors
             ELSE /\ loop'.tokens = TokensWithText
                  /\ loop'.errors = Append(loop.errors, [code |-> ClassOf(ContentAhead),
                                                         index |-> loop.index])
     /\ (Scanning /\ Ahead = Close2) =>
          /\ ~loop'.stopped
          /\ loop'.index = loop.index + 2
          /\ loop'.tokens = loop.tokens
          /\ loop'.errors = Append(loop.errors, [code |-> "unexpected-close",
                                                 index |-> loop.index])
     /\ (call.op = "parseTemplateString" /\ loop.stopped) =>
          /\ loop' = loop
          /\ ret' # <<>>
          /\ ret'[1].tokens = loop.tokens
          /\ ret'[1].errors = loop.errors]_vars

\* }}{{now}} was parsed: unexpected-close at 0, then the helper now
C28_Witness ==
  /\ call.op = "parseTemplateString"
  /\ call.input = Close2 \o Open2 \o HelperNow \o Close2
  /\ ret # <<>>
  /\ loop.index = 9
  /\ ret[1].tokens = <<[type |-> "helper", name |-> HelperNow]>>
  /\ ret[1].errors = <<[code |-> "unexpected-close", index |-> 0]>>

\* C29: parseTemplateString ends and does not throw: every iteration either
\* moves the index forward, by at least one character and not past the end of
\* the input, or ends the scan; once the loop is left the call returns the
\* tokens and errors found, the result of parseTemplateString.
C29_EveryStepConsumesOrEnds ==
  [][call.op = "parseTemplateString" =>
       /\ ret = <<>>
       /\ IF loop.index < Len(call.input) /\ ~loop.stopped
          THEN /\ ret' = <<>>
               /\ \/ loop'.stopped
                  \/ loop.index < loop'.index /\ loop'.index <= Len(call.input)
          ELSE /\ ret' # <<>>
               /\ ret'[1] = parseTemplateString(call.input)
               /\ DOMAIN ret'[1] = {"tokens", "errors", "helpers", "hasTemplates"}]_vars

\* \{{a was parsed in two iterations, the escape without a closing pair taking
\* three characters: one text token {{a and no error
C29_Witness ==
  /\ call.op = "parseTemplateString"
  /\ call.input = <<"\\">> \o Open2 \o <<"a">>
  /\ ret # <<>>
  /\ loop.index = 4
  /\ ret[1].tokens = <<[type |-> "text", value |-> Open2 \o <<"a">>]>>
  /\ ret[1].errors = <<>>

----------------------------------------------------------------------------
(* The proxy-with-overrides branch on bounded response directives *)

\* respond of a rule without body and bodyFile: status, optional delay and
\* optional timeout, 0 included as the validator accepts it
OverrideResponds ==
  {[status |-> <<st>>, body |-> <<>>, bodyFile |-> <<>>, headers |-> h,
    delayMs |-> d, timeout |-> t] :
     st \in {204, 429}, h \in {<<>>, <<<<[k |-> "X-Mode", v |-> <<"m", "o", "c", "k">>]>>>>},
     d \in {<<>>, <<0>>, <<10>>}, t \in {<<>>, <<0>>, <<50>>}}

\* The locals of the handleRequest call for GET /c under the scenario of the
\* header, the matched rule having the given respond
OverrideCall(respond) ==
  [matchRules(emitResolution(resolveScenario(enterRequest(
     [method |-> "GET", path |-> PathC, headers |-> ScenarioHeader(Str(NameOutage)),
      query |-> <<>>, body |-> Undef],
     routeFor("GET", PathC), 1))))
   EXCEPT !.match = <<[rule |-> [RuleBare EXCEPT !.respond = respond], ruleIndex |-> 3]>>]

OverrideInit ==
  /\ call \in {[op |-> "proxyOverride", respond |-> rs] : rs \in OverrideResponds}
  /\ loop = findMatchingRuleStart
  /\ ret = <<>>
  /\ proxyBaseUrl = <<"http://upstream">>
  /\ currentScenario = <<>>
  /\ templateRuntimes = <<>>
  /\ requests = <<>>
  /\ started = 0
  /\ completed = <<>>
  /\ incrementLog = <<>>

\* the matched rule is answered up to the await of proxyRequest
OverrideSend ==
  /\ call.op = "proxyOverride"
  /\ ret = <<>>
  /\ \E env \in Envs :
       ret' = <<respondMatched(OverrideCall(call.respond), call.respond,
                               templateRuntimes, env).rec>>
  /\ UNCHANGED <<call, loop>>
  /\ UNCHANGED serverVars

\* await proxyRequest(...) returns
OverrideReturn ==
  /\ call.op = "proxyOverride"
  /\ ret # <<>>
  /\ ret[1].pc = "proxyOverride"
  /\ \E outcome \in UpstreamOutcomes(ret[1].fetches[Len(ret[1].fetches)]) :
       ret' = <<resumeOverride(ret[1], outcome)>>
  /\ UNCHANGED <<call, loop>>
  /\ UNCHANGED serverVars

\* await sleep(respond.delayMs) returns
OverrideDelayEnd ==
  /\ call.op = "proxyOverride"
  /\ ret # <<>>
  /\ ret[1].pc = "overrideDelay"
  /\ ret' = <<respondOverride(ret[1])>>
  /\ UNCHANGED <<call, loop>>
  /\ UNCHANGED serverVars

OverrideNext == OverrideSend \/ OverrideReturn \/ OverrideDelayEnd

SpecOverride == OverrideInit /\ [][OverrideNext]_vars

\* C30: in the proxy-with-overrides branch a rule that configures a timeout,
\* 0 included, has its upstream call bounded by it: the call is sent with an
\* armed abort timer, and a call the timer cancelled is answered
\* 504 {"message":"Proxy timeout"}, not 502 and not the rule's status.
C30_ConfiguredTimeoutBoundsUpstream ==
  (call.op = "proxyOverride" /\ ret # <<>> /\ call.respond.timeout # <<>>) =>
    /\ Len(ret[1].fetches) = 1
    /\ ret[1].fetches[1].abortTimer
    /\ ret[1].upstream = <<[type |-> "abort"]>> =>
         /\ ret[1].reply.sent
         /\ ret[1].reply.status = 504
         /\ ret[1].reply.body = ProxyTimeoutBody

----------------------------------------------------------------------------
(* The pass-through branch on bounded request and upstream headers *)

HeaderText == <<"v">>

\* Header names as the server and the upstream deliver them, with the
\* capitalised names a caller of the handler may pass
WireNames ==
  {"connection", "keep-alive", "proxy-authenticate", "proxy-authorization", "te",
   "trailer", "transfer-encoding", "upgrade", "host", "content-length",
   "Connection", "Host", "Content-Length", "Upgrade", "content-type", "x-mode", "etag"}

\* request.headers entries: a string for every name, a list and undefined
RequestEntries ==
  {[k |-> n, v |-> Str(HeaderText)] : n \in WireNames}
  \cup {[k |-> "x-mode", v |-> List(<<<<"a">>, <<"b">>>>)], [k |-> "etag", v |-> Undef]}

\* objects of at most two entries with different keys
EntryLists(entries) ==
  {<<>>} \cup {<<e>> : e \in entries}
  \cup {pair \in entries \X entries : pair[1].k # pair[2].k}

ForwardedRequests ==
  {[method |-> m, path |-> PathC, headers |-> h, query |-> <<>>, body |-> b] :
     m \in {"GET", "HEAD", "POST"},
     h \in EntryLists(RequestEntries),
     b \in {Undef, Obj(<<[k |-> "q", v |-> Num(1)]>>)}}

\* the responses of the upstream: one or two headers out of these names
UpstreamResponses ==
  {[type |-> "response", status |-> 200, headers |-> h, bytes |-> <<"o", "k">>] :
     h \in EntryLists({[k |-> n, v |-> HeaderText] :
                         n \in {"connection", "transfer-encoding", "content-length",
                                "keep-alive", "etag", "content-type"}})}

ForwardInit ==
  /\ call \in {[op |-> "proxyRequest", request |-> rq] : rq \in ForwardedRequests}
  /\ loop = findMatchingRuleStart
  /\ ret = <<>>
  /\ proxyBaseUrl = <<"http://upstream">>
  /\ currentScenario = <<>>
  /\ templateRuntimes = <<>>
  /\ requests = <<>>
  /\ started = 0
  /\ completed = <<>>
  /\ incrementLog = <<>>

\* handleRequest runs up to the await of proxyRequest
ForwardSend ==
  /\ call.op = "proxyRequest"
  /\ ret = <<>>
  /\ \E env \in Envs :
       ret' = <<handleRequestEntry(call.request,
                                   routeFor(call.request.method, call.request.path),
                                   1, env).rec>>
  /\ UNCHANGED <<call, loop>>
  /\ UNCHANGED serverVars

\* await proxyRequest(...) returns with the upstream's response
ForwardReturn ==
  /\ call.op = "proxyRequest"
  /\ ret # <<>>
  /\ ret[1].pc = "proxyPlain"
  /\ \E outcome \in UpstreamResponses : ret' = <<resumeProxied(ret[1], outcome)>>
  /\ UNCHANGED <<call, loop>>
  /\ UNCHANGED serverVars

ForwardNext == ForwardSend \/ ForwardReturn

SpecForward == ForwardInit /\ [][ForwardNext]_vars

Excluded(name) ==
  LowerTable[name] \in {"connection", "keep-alive", "proxy-authenticate",
                        "proxy-authorization", "te", "trailer", "transfer-encoding",
                        "upgrade", "host", "content-length"}

\* C31: the request sent to the upstream carries none of the headers
\* connection, keep-alive, proxy-authenticate, proxy-authorization, te,
\* trailer, transfer-encoding, upgrade, host and content-length, whatever the
\* case of the name, and no body when the method is GET or HEAD; the headers
\* of the reply, relayed from the upstream, omit the same names.
C31_HopByHopHeadersDropped ==
  (call.op = "proxyRequest" /\ ret # <<>>) =>
    /\ Len(ret[1].fetches) = 1
    /\ \A i \in 1..Len(ret[1].fetches[1].headers) : ~Excluded(ret[1].fetches[1].headers[i].k)
    /\ ret[1].fetches[1].method \in {"GET", "HEAD"} => ret[1].fetches[1].body = Undef
    /\ \A i \in 1..Len(ret[1].reply.headers) : ~Excluded(ret[1].reply.headers[i].k)

\* A POST with Host and content-type and a body was forwarded with
\* content-type only and its body; of the upstream's transfer-encoding and
\* etag the reply carries etag only.
C31_Witness ==
  /\ call.op = "proxyRequest"
  /\ call.request.method = "POST"
  /\ call.request.headers = <<[k |-> "Host", v |-> Str(HeaderText)],
                              [k |-> "content-type", v |-> Str(HeaderText)]>>
  /\ ret # <<>>
  /\ ret[1].fetches[1].headers = <<[k |-> "content-type", v |-> HeaderText]>>
  /\ ret[1].fetches[1].body # Undef
  /\ ret[1].upstream # <<>>
  /\ ret[1].upstream[1].headers = <<[k |-> "transfer-encoding", v |-> HeaderText],
                                    [k |-> "etag", v |-> HeaderText]>>
  /\ ret[1].reply.sent
  /\ ret[1].reply.headers = <<[k |-> "etag", v |-> HeaderText]>>

\* validation of file number i returned warnings and no error
WarnedOnly(i) ==
  /\ ~FileResult(i).threw
  /\ FileResult(i).errors # <<>>
  /\ ~HasSeverity(FileResult(i).errors, "error")

\* loadScenarios threw its list of validation errors
LoadAborted ==
  \E i \in 1..Len(loop.events) :
    /\ loop.events[i].event = "startup-failed"
    /\ loop.events[i].message = "validation errors"

\* C39: a scenario file with warnings and no errors is in the set that
\* loadScenarios returns, and startup is aborted by loadScenarios only when
\* some file yields an error or two valid files share a name
C39_WarnedFileIsLoaded ==
  call.op = "run" =>
    /\ Loaded =>
         \A i \in 1..Len(call.files) :
           WarnedOnly(i) =>
             \E k \in 1..Len(loop.scenarios) :
               /\ loop.scenarios[k].sourcePath = call.files[i].path
               /\ loop.scenarios[k].data = call.files[i].doc.contents
    /\ LoadAborted => ((\E i \in 1..Len(call.files) : YieldsError(i)) \/ SharedName)

----------------------------------------------------------------------------
(* validateScenarioFile on bounded scenario documents *)

MaxFileRules == 2

\* a rule whose match is a scalar and whose respond is null
RuleBadMatchAndRespond ==
  Obj(<<[k |-> "id", v |-> IdR1[1]], [k |-> "match", v |-> Str(PathB)],
        [k |-> "respond", v |-> Null]>>)

\* a rule whose match is a list
RuleListMatch ==
  Obj(<<[k |-> "match", v |-> List(<<Str(PathB)>>)],
        [k |-> "respond", v |-> Obj(<<[k |-> "status", v |-> Num(200)]>>)]>>)

\* a rule whose respond is a scalar
RuleScalarRespond ==
  Obj(<<[k |-> "id", v |-> IdR2[1]],
        [k |-> "match", v |-> Obj(<<[k |-> "path", v |-> Str(PathB)]>>)],
        [k |-> "respond", v |-> Num(200)]>>)

\* The entries of rules: well-formed rules, rules with a match or a respond
\* that is no object, a null rule and scalar rules
RuleEntries ==
  {FileRule(IdR1, Num(200), BodyOk), FileRule(IdR2, Num(204), Undef),
   RuleBadMatchAndRespond, RuleListMatch, RuleScalarRespond,
   Null, Str(<<"r">>), Num(7)}

RuleEntryLists == UNION {[1..n -> RuleEntries] : n \in 1..MaxFileRules}

\* What the YAML parser reports: nothing, a warning, an error
ParserReports == {<<<<>>, <<>>>>, <<<<>>, <<"Unresolved tag">>>>,
                  <<<<"Bad indentation">>, <<>>>>}

\* The documents validated: every list of rule entries under a plain name,
\* a reserved name and a name that is no string, and documents that are no
\* mapping
ValidatedDocuments ==
  {Doc(p[1], p[2], FileScenario(name, rules)) :
     p \in ParserReports, name \in {NameX, Str(AutoGen500), Num(1)},
     rules \in RuleEntryLists}
  \cup {Doc(p[1], p[2], contents) :
          p \in ParserReports, contents \in {Null, Str(<<"x">>), List(<<>>)}}

ValidateInit ==
  /\ call \in {[op |-> "validateScenarioFile", filePath |-> "a.yaml", doc |-> d] :
                 d \in ValidatedDocuments}
  /\ loop = findMatchingRuleStart
  /\ ret = <<>>
  /\ ServerStopped

\* validateScenarioFile(filePath) returns or raises
ValidateApply ==
  /\ call.op = "validateScenarioFile"
  /\ ret = <<>>
  /\ ret' = <<validateScenarioFile(call.filePath, call.doc)>>
  /\ UNCHANGED <<call, loop>>
  /\ UNCHANGED serverVars

ValidateNext == ValidateApply

SpecValidate == ValidateInit /\ [][ValidateNext]_vars

\* the call returned a result
Returned == call.op = "validateScenarioFile" /\ ret # <<>> /\ ~ret[1].threw

ParseFailed == call.doc.errors # <<>>

RootOf == call.doc.contents

\* the root shape of the document is the one a scenario file must have
RootShapeValid ==
  /\ RootOf.t = "object"
  /\ Prop(RootOf, "scenario").t = "string"
  /\ Prop(RootOf, "rules").t = "array" /\ Prop(RootOf, "rules").l # <<>>

IsRuleEntry(e) == Len(e.path) >= 2 /\ e.path[1] = "rules" /\ e.message # "Duplicate rule id"
IsDuplicateIdEntry(e) == e.message = "Duplicate rule id"
IsReservedNameEntry(e) == e.message = "Scenario name uses reserved prefix"

ResultEntries == {ret[1].errors[i] : i \in 1..Len(ret[1].errors)}

FileRulesOf == Prop(RootOf, "rules").l

\* the rules whose id was declared by an earlier rule
RepeatedIds ==
  {j \in 1..Len(FileRulesOf) :
     /\ ruleIdOf(FileRulesOf[j]) \notin {<<>>, <<<<>>>>}
     /\ \E i \in 1..(j - 1) : ruleIdOf(FileRulesOf[i]) = ruleIdOf(FileRulesOf[j])}

C32_WitnessRootError ==
  /\ Returned
  /\ ~RootShapeValid /\ RootOf.t = "object"
  /\ \E j \in 1..Len(FileRulesOf) : validateRule(FileRulesOf[j], call.filePath, j - 1) # <<>>
  /\ ret[1].errors # <<>>

\* the call ended, with a result or by raising
ValidateEnded == call.op = "validateScenarioFile" /\ ret # <<>>

\* the result has an error entry with this message at this place
Reported(pathKey, message) ==
  \E i \in 1..Len(ret[1].errors) :
    /\ ret[1].errors[i].path = pathKey
    /\ ret[1].errors[i].message = message
    /\ ret[1].errors[i].severity = "error"

\* C40: for every document that parses the call returns a result and never
\* raises; with a valid root a rule that is null or a scalar, a match that
\* is no object and a respond that is no object are each reported as an error
C40_MalformedRulesReportedNeverRaise ==
  (ValidateEnded /\ ~ParseFailed) =>
    /\ ~ret[1].threw
    /\ RootShapeValid =>
         \A j \in 1..Len(FileRulesOf) :
           /\ FileRulesOf[j].t # "object" =>
                Reported(<<"rules", IndexText(j - 1)>>, "Rule must be an object")
           /\ (FileRulesOf[j].t = "object" /\ Prop(FileRulesOf[j], "match").t # "object") =>
                Reported(<<"rules", IndexText(j - 1), "match">>, "match must be an object")
           /\ (FileRulesOf[j].t = "object" /\ Prop(FileRulesOf[j], "respond").t # "object") =>
                Reported(<<"rules", IndexText(j - 1), "respond">>, "respond must be an object")

----------------------------------------------------------------------------
(* validateTemplatesInBody and renderTemplates on the same bodies *)

\* the characters of the object keys of the bodies checked
KeyChars(key) ==
  CASE key = "id" -> <<"i", "d">>
    [] key = "items" -> <<"i", "t", "e", "m", "s">>
    [] key = "{{now}}" -> Open2 \o HelperNow \o Close2
    [] key = "a{{" -> <<"a">> \o Open2

\* hasTemplateSyntax(value).hasTemplate
hasTemplateSyntax(value) ==
  parseTemplateString(value).hasTemplates \/ Len(parseTemplateString(value).errors) > 0

\* toIssue for a parser error, and the issue of an object key; code stands
\* for the message
toIssue(pathKey, error) == [path |-> pathKey, code |-> error.code, key |-> <<>>]

validateStringTemplates(value, pathKey) ==
  [i \in 1..Len(parseTemplateString(value).errors) |->
     toIssue(pathKey, parseTemplateString(value).errors[i])]

\* Variant: only a body that is a string itself is looked at
validateBodyValue_topLevelOnly(value, pathKey) ==
  IF value.t = "string" THEN validateStringTemplates(value.s, pathKey) ELSE <<>>

RECURSIVE validateBodyValue(_, _)
validateBodyValue(value, pathKey) ==
  IF value.t = "string" THEN validateStringTemplates(value.s, pathKey)
  ELSE IF value.t = "array"
  THEN Flat([i \in 1..Len(value.l) |->
               validateBodyValue(value.l[i], Append(pathKey, IndexText(i - 1)))])
  ELSE IF value.t = "object"
  THEN Flat([i \in 1..Len(value.e) |->
               When(hasTemplateSyntax(KeyChars(value.e[i].k)),
                    [path |-> pathKey, code |-> "helper-in-key", key |-> <<value.e[i].k>>])
               \o validateBodyValue(value.e[i].v, Append(pathKey, value.e[i].k))])
  ELSE <<>>

validateTemplatesInBody(value, pathKey) == validateBodyValue(value, pathKey)

\* objects whose keys hold a template or a malformed template
KeyedBodies ==
  {Obj(<<[k |-> key, v |-> a]>>) : key \in {"{{now}}", "a{{", "id"}, a \in TemplateLeaves}
  \cup {Obj(<<[k |-> "items", v |-> List(<<Obj(<<[k |-> key, v |-> a]>>)>>)]>>) :
          key \in {"{{now}}", "id"}, a \in TemplateLeaves}

CheckedBodies == TemplateValues \cup KeyedBodies \cup {Null, Undef}

BodyCheckInit ==
  /\ call \in {[op |-> "validateTemplatesInBody", value |-> v, counter |-> k] :
                 v \in CheckedBodies, k \in {0, 2}}
  /\ loop = findMatchingRuleStart
  /\ ret = <<>>
  /\ ServerStopped

\* validateTemplatesInBody(value, 'respond.body') returns its issues
BodyValidate ==
  /\ call.op = "validateTemplatesInBody"
  /\ ret = <<>>
  /\ ret' = <<[issues |-> validateTemplatesInBody(call.value, <<"respond", "body">>)]>>
  /\ UNCHANGED <<call, loop>>
  /\ UNCHANGED serverVars

\* renderTemplates(value, runtime) runs on the value that was validated
BodyRender ==
  /\ call.op = "validateTemplatesInBody"
  /\ Len(ret) = 1
  /\ \E env \in Envs :
       ret' = Append(ret, renderTemplates(call.value,
                                          [counter |-> call.counter, issued |-> <<>>], env))
  /\ UNCHANGED <<call, loop>>
  /\ UNCHANGED serverVars

BodyCheckNext == BodyValidate \/ BodyRender

SpecBodyCheck == BodyCheckInit /\ [][BodyCheckNext]_vars

BodyChecked == call.op = "validateTemplatesInBody" /\ Len(ret) = 2

\* C34: a value for which validateTemplatesInBody reports no issue is
\* rendered by renderTemplates without an error being raised
C34_ValidatedBodyRendersWithoutError ==
  (BodyChecked /\ ret[1].issues = <<>>) => ~ret[2].threw

\* an object with a helper in a string and in a nested list passed the
\* validation and was rendered
C34_Witness ==
  /\ BodyChecked
  /\ call.value = Obj(<<[k |-> "id", v |-> Str(TemplateIncrement)],
                        [k |-> "items",
                         v |-> List(<<Str(<<"i", "d", "-">> \o Open2 \o HelperUuid \o Close2)>>)]>>)
  /\ call.counter = 0
  /\ ret[1].issues = <<>>
  /\ ~ret[2].threw
  /\ ret[2].helpers = <<HelperIncrement, HelperUuid>>

----------------------------------------------------------------------------
(* Requests suspended while the active scenario is switched *)

\* The requests that carry no scenario header
PlainInbound == {inbound \in Inbound : Get(inbound.headers, "x-mockhub-scenario") = Undef}

\* The names of the loaded scenarios, and none
Switchable == {<<>>, <<NameOutage>>, <<NameFiles>>}

\* A request without scenario header arrives
ReceivePlain ==
  /\ started < MaxRequests
  /\ FreeSlots # {}
  /\ \E inbound \in PlainInbound, env \in Envs :
       LET route == routeFor(inbound.method, inbound.path)
       IN /\ route # <<>> \/ isProxyEnabled
          /\ Commit(SetMin(FreeSlots), handleRequestEntry(inbound, route, started + 1, env))
  /\ started' = started + 1
  /\ UNCHANGED <<matcherVars, proxyBaseUrl, currentScenario>>

\* scenarioState.set(next) with the name of a loaded scenario or none
SwitchScenario ==
  /\ \E next \in Switchable :
       /\ currentScenario' = set(next)
       /\ currentScenario' # currentScenario
  /\ completed' = <<>>
  /\ UNCHANGED <<matcherVars, proxyBaseUrl, templateRuntimes, requests, started,
                 incrementLog>>

SwitchNext ==
  \/ ReceivePlain
  \/ SwitchScenario
  \/ \E r \in Slots : ProxyOverrideReturn(r)
  \/ \E r \in Slots : OverrideDelayDone(r)
  \/ \E r \in Slots : MockTimeoutDone(r)
  \/ \E r \in Slots : MockDelayDone(r)
  \/ \E r \in Slots : ReadBodyFileDone(r)
  \/ \E r \in Slots : ProxyPlainReturn(r)

SpecSwitch == ServerInit /\ [][SwitchNext]_vars

Suspended(r) == requests[r].pc \notin {"idle", "done"}

\* the scenario whose counter changed in templateRuntimes during the step
CountersMoved ==
  {n \in DOMAIN templateRuntimes' :
     n \notin DOMAIN templateRuntimes \/ templateRuntimes'[n] # templateRuntimes[n]}

\* The locals the call in slot r goes on with, or returned with, are those
\* it was suspended with; a response written from the mock branch has the
\* status of the rule matched at the start; a counter that moves is the one
\* of the scenario resolved at the start
ResumedAsResolved(r, after) ==
  /\ after.seq = requests[r].seq
  /\ after.activeScenario = requests[r].activeScenario
  /\ after.scenarioName = requests[r].scenarioName
  /\ after.loadedScenario = requests[r].loadedScenario
  /\ after.match = requests[r].match
  /\ (requests[r].pc \in {"readBodyFile", "overrideDelay"} /\ after.reply.sent) =>
       after.reply.status = requests[r].match[1].rule.respond.status[1]
  /\ (requests[r].pc = "mockTimeout" /\ after.reply.sent) => after.reply.status = 504
  /\ CountersMoved \subseteq {requests[r].loadedScenario[i].scenario :
                               i \in 1..Len(requests[r].loadedScenario)}

\* C36: what a suspended request is resolved against does not change: a set
\* on the active slot leaves every suspended call as it is, and the step
\* that resumes a call works with the scenario, rule and counter fixed when
\* the handling started, whatever the active slot holds by then
C36_SuspendedRequestKeepsScenario ==
  [][\A r \in Slots :
       Suspended(r) =>
         /\ currentScenario' # currentScenario =>
              (requests'[r] = requests[r] /\ templateRuntimes' = templateRuntimes)
         /\ requests'[r] # requests[r] =>
              (IF requests'[r].pc = "idle"
               THEN completed' # <<>> /\ ResumedAsResolved(r, completed'[1])
               ELSE ResumedAsResolved(r, requests'[r]))]_vars

\* a request resolved against the active scenario files was answered from
\* its rule, with the counter of files, after the active scenario had been
\* switched to outage
C36_Witness ==
  /\ completed # <<>>
  /\ completed[1].headerScenario = <<>>
  /\ completed[1].activeScenario = <<NameFiles>>
  /\ currentScenario = <<NameOutage>>
  /\ completed[1].match # <<>>
  /\ completed[1].match[1].rule.id = <<"file">>
  /\ completed[1].reply.sent
  /\ completed[1].reply.status = 200
  /\ NameFiles \in DOMAIN templateRuntimes
  /\ templateRuntimes[NameFiles].counter >= 2
  /\ NameOutage \notin DOMAIN templateRuntimes

====
